---- MODULE Spec2Model ----
(***************************************************************************)
(* Batch orchestration of sonatype-resource-automation: the HTTP handlers  *)
(* (processBatch, getJobStatus), request validation, the Job Store, the    *)
(* progress tracker, and the background fan-out / fan-in of                *)
(* BatchManager.ProcessBatchAsync.                                         *)
(***************************************************************************)
EXTENDS Integers, Sequences, FiniteSets, TLC

\* ---------------------------------------------------------------- bounds
\* Number of batches that are accepted (jobs created) in one behaviour.
MaxJobs == 1
\* Largest number of requests in one submitted batch.
MaxBatch == 2
\* Largest number of requests in one batch of create requests (CreateSpec).
MaxCreateBatch == 3
\* Goroutines that call the JobStore methods concurrently (StoreSpec).
MaxClients == 2
\* JobStore calls one goroutine makes (StoreSpec).
MaxCalls == 2
\* Job ids the goroutines use (StoreSpec).
MaxStoreJobs == 2
\* Times one worker runs the creation workflow for its request (CreationSpec).
MaxRuns == 2
\* Workers that run deletion workflows concurrently (DeletionSpec).
MaxDeleters == 2
\* Roles of the user the owner decision is taken for (OwnerSpec).
MaxOwnerRoles == 2
\* Roles in the afterRemoval list given to the role decision engine.
MaxAfterRemoval == 3
\* Times DecideFinalRoles is called on one engine, its output fed back.
MaxDecisions == 2

\* ------------------------------------------------------- program constants
MethodCreate == "create"
MethodDelete == "delete"

JobStatusPending == "pending"
JobStatusProcessing == "processing"
JobStatusCompleted == "completed"
JobStatusFailed == "failed"

StatusPending == "pending"
MessageJobQueued == "Job queued for processing"
MessageValidationFailed == "All requests failed validation"
MessageInvalidRequestBody == "Invalid request body"
MessageBatchEmpty == "Batch must contain at least one request"
ErrorCodeInvalidRequestBody == "invalid_request_body"
ErrorCodeValidationFailed == "validation_failed"

StatusUnprocessableEntity == 422
StatusAccepted == 202
StatusOK == 200
StatusNotFound == 404

SharedRoleName == "repositories.share"

\* A value no Go value of the model equals (nil pointer, absent error).
Nil == "nil"

\* ------------------------------------------------------ static configuration
\* Config.Orgs: organization name -> IQ Server organization id.
Orgs == [o \in {"org1"} |-> "org-id-1"]
\* Config.PackageManagers: format name -> DefaultURL.  The keys are those of
\* config/packageManager.json as written there, here in both cases.
PackageManagers == [p \in {"npm", "NPM"} |-> "https://registry.npmjs.org"]
BaseRoles == <<"base-role">>
ExtraRoles == <<"extra-role">>

\* ------------------------------------------------------------ input domains
OrgNames == {"org1", "invalid-org"}
Usernames == {"user1"}
PackageManagerNames == {"", "npm"}
AppIDs == {"", "app-9"}

\* config.RepositoryRequest
RepositoryRequest ==
  [OrganizationName : OrgNames, LdapUsername : Usernames,
   PackageManager : PackageManagerNames, Shared : BOOLEAN, AppID : AppIDs]

Actions == {MethodCreate, MethodDelete}

\* SeqsUpTo(S, n): the sequences over S of length at most n.
SeqsUpTo(S, n) == UNION {[1..k -> S] : k \in 0..n}

\* The request bodies a client can send: a body that does not bind
\* (ShouldBindJSON fails) or a list of requests.
\* (Bound is FALSE when ShouldBindJSON returns an error.)
Bodies ==
  {[Bound |-> FALSE, Requests |-> <<>>]} \cup
  {[Bound |-> TRUE, Requests |-> s] : s \in SeqsUpTo(RepositoryRequest, MaxBatch)}

Range(s) == {s[i] : i \in DOMAIN s}

\* ------------------------------------------------------------- validation
ReasonPMMustBeEmpty == "packageManager must be empty for shared delete operations"
ReasonPMRequired == "packageManager is required for this operation type"
ReasonAppIDNotAllowed == "appid not allowed for shared repos on create"
ReasonAppIDRequiredOffboarding == "appid required for shared repos on delete (offboarding)"
ReasonAppIDRequired == "appid required for non-shared repos"

\* Mutant of validateRequest: the packageManager check of shared deletes is
\* missing.
validateRequestNoSharedDeleteCheck(req, action) ==
  IF ~(action = MethodDelete /\ req.Shared) /\ req.PackageManager = ""
    THEN ReasonPMRequired
  ELSE IF action = MethodCreate /\ req.Shared /\ req.AppID # ""
    THEN ReasonAppIDNotAllowed
  ELSE IF action = MethodDelete /\ req.Shared /\ req.AppID = ""
    THEN ReasonAppIDRequiredOffboarding
  ELSE IF ~req.Shared /\ req.AppID = ""
    THEN ReasonAppIDRequired
  ELSE Nil

\* The body of validateBatchRequest's loop for one request: the reason of the
\* first failing check (the `continue` after it), Nil if all checks pass.
validateRequest(req, action) ==
  IF action = MethodDelete /\ req.Shared /\ req.PackageManager # ""
    THEN ReasonPMMustBeEmpty
  ELSE IF ~(action = MethodDelete /\ req.Shared) /\ req.PackageManager = ""
    THEN ReasonPMRequired
  ELSE IF action = MethodCreate /\ req.Shared /\ req.AppID # ""
    THEN ReasonAppIDNotAllowed
  ELSE IF action = MethodDelete /\ req.Shared /\ req.AppID = ""
    THEN ReasonAppIDRequiredOffboarding
  ELSE IF ~req.Shared /\ req.AppID = ""
    THEN ReasonAppIDRequired
  ELSE Nil

\* server.ValidationError
ValidationError(req, reason) == [Request |-> req, Reasons |-> <<reason>>]

RECURSIVE validateLoop(_, _, _, _)
validateLoop(requests, i, action, acc) ==
  IF i > Len(requests) THEN acc
  ELSE LET req == requests[i]
           reason == validateRequest(req, action)
       IN IF reason # Nil
            THEN validateLoop(requests, i + 1, action,
                   [acc EXCEPT !.InvalidRequests =
                      Append(@, ValidationError(req, reason))])
            ELSE validateLoop(requests, i + 1, action,
                   [acc EXCEPT !.ValidRequests = Append(@, req)])

\* Handler.validateBatchRequest: a server.ValidationResult.
validateBatchRequest(requests, action) ==
  validateLoop(requests, 1, action,
               [ValidRequests |-> <<>>, InvalidRequests |-> <<>>])

\* -------------------------------------------------------------- Job Store
\* Mutant of NewJob: the job starts with no operation counted as pending.
NewJobNoPending(id, action, totalRequests, t) ==
  [ID |-> id, Status |-> JobStatusPending, Action |-> action,
   CreatedAt |-> t, UpdatedAt |-> t, TotalRequests |-> totalRequests,
   SuccessfulOperations |-> 0, FailedOperations |-> 0,
   NotProcessedOperations |-> 0, FailedRequests |-> <<>>,
   Message |-> <<"Job queued">>]

\* config.Job as CreateJob builds it; t is time.Now().
NewJob(id, action, totalRequests, t) ==
  [ID |-> id, Status |-> JobStatusPending, Action |-> action,
   CreatedAt |-> t, UpdatedAt |-> t, TotalRequests |-> totalRequests,
   SuccessfulOperations |-> 0, FailedOperations |-> 0,
   NotProcessedOperations |-> totalRequests, FailedRequests |-> <<>>,
   Message |-> <<"Job queued">>]

\* JobStore.CreateJob: the store with the new job under id.
CreateJob(js, id, action, totalRequests, t) ==
  (id :> NewJob(id, action, totalRequests, t)) @@ js

\* Mutant of GetJob: no id is ever found.
GetJobNeverExists(js, id) == [job |-> Nil, exists |-> FALSE]

\* JobStore.GetJob: the stored job and the existence flag.
GetJob(js, id) ==
  IF id \in DOMAIN js THEN [job |-> js[id], exists |-> TRUE]
  ELSE [job |-> Nil, exists |-> FALSE]

\* JobStore.UpdateJob: the mutator applied to the job, UpdatedAt refreshed;
\* an error and an unchanged store if the id is absent. updateFn is the
\* mutator as a function defined on the stored job.
UpdateJob(js, id, updateFn, t) ==
  IF id \notin DOMAIN js
    THEN [store |-> js, err |-> "job not found"]
    ELSE [store |-> [js EXCEPT ![id] = [updateFn[@] EXCEPT !.UpdatedAt = t]],
          err |-> Nil]

\* ------------------------------------------------------- progress tracker
\* The mutator of JobProgressTracker.SetProcessing.
SetProcessing(job) ==
  [job EXCEPT !.Status = JobStatusProcessing,
              !.Message = <<"Processing requests">>]

\* Mutant of Finalize: any failure marks the whole job failed.
FinalizeAnyFailure(job, successful, failed, notProcessed, total, failedRequests) ==
  LET counted == [job EXCEPT !.SuccessfulOperations = successful,
                             !.FailedOperations = failed,
                             !.NotProcessedOperations = notProcessed,
                             !.FailedRequests = failedRequests]
  IN IF failed = 0
       THEN [counted EXCEPT !.Status = JobStatusCompleted,
               !.Message = <<"Successfully processed all %d requests", successful>>]
       ELSE [counted EXCEPT !.Status = JobStatusFailed,
               !.Message = <<"All %d requests failed", failed>>]

\* The mutator of JobProgressTracker.Finalize.
Finalize(job, successful, failed, notProcessed, total, failedRequests) ==
  LET counted == [job EXCEPT !.SuccessfulOperations = successful,
                             !.FailedOperations = failed,
                             !.NotProcessedOperations = notProcessed,
                             !.FailedRequests = failedRequests]
  IN IF failed = 0
       THEN [counted EXCEPT !.Status = JobStatusCompleted,
               !.Message = <<"Successfully processed all %d requests", successful>>]
     ELSE IF successful = 0
       THEN [counted EXCEPT !.Status = JobStatusFailed,
               !.Message = <<"All %d requests failed", failed>>]
     ELSE [counted EXCEPT !.Status = JobStatusCompleted,
               !.Message = <<"Processed %d of %d requests with %d errors",
                             successful, total, failed>>]

\* The mutator of JobProgressTracker.MarkFailed (no caller in the program).
MarkFailed(job, totalRequests) ==
  [job EXCEPT !.Status = JobStatusFailed,
              !.TotalRequests = totalRequests,
              !.FailedOperations = totalRequests,
              !.NotProcessedOperations = 0,
              !.Message = <<"All %d requests failed", totalRequests>>]

\* ------------------------------------------------ operation config resolver
\* Mutant of ToLower: the name is left as it is.
ToLowerIdentity(s) == s

\* strings.ToLower on the package manager names of the model.
ToLower(s) ==
  CASE s = "NPM" -> "npm"
    [] s = "Npm" -> "npm"
    [] OTHER -> s

ErrOrganizationNotFound(name) == "organization '" \o name \o "' not found"
ErrPackageManagerNotFound(name) == "package manager '" \o name \o "' not found"

\* The zero value of config.OperationConfig.
ZeroOperationConfig ==
  [Action |-> "", LdapUsername |-> "", OrganizationID |-> "", RemoteURL |-> "",
   ExtraRoles |-> <<>>, BaseRoles |-> <<>>, RepositoryName |-> "",
   PrivilegeName |-> "", RoleName |-> "", PackageManager |-> "",
   Shared |-> FALSE, AppID |-> ""]

\* Config.CreateOpConfig: the resolved OperationConfig, or the error.  The
\* struct literal it returns sets neither Shared nor AppID, which keep their
\* zero values.
CreateOpConfig(r, action) ==
  IF r.OrganizationName \notin DOMAIN Orgs
    THEN [cfg |-> ZeroOperationConfig,
          err |-> ErrOrganizationNotFound(r.OrganizationName)]
  ELSE IF r.PackageManager \notin DOMAIN PackageManagers
    THEN [cfg |-> ZeroOperationConfig,
          err |-> ErrPackageManagerNotFound(r.PackageManager)]
  ELSE LET suffix == IF r.Shared THEN "shared" ELSE r.AppID
           repoName == ToLower(r.PackageManager) \o "-release-" \o suffix
           roleName == IF r.Shared THEN SharedRoleName ELSE r.LdapUsername
       IN [cfg |-> [ZeroOperationConfig EXCEPT
                      !.Action = action,
                      !.LdapUsername = r.LdapUsername,
                      !.OrganizationID = Orgs[r.OrganizationName],
                      !.RemoteURL = PackageManagers[r.PackageManager],
                      !.ExtraRoles = ExtraRoles,
                      !.BaseRoles = BaseRoles,
                      !.RepositoryName = repoName,
                      !.PrivilegeName = repoName,
                      !.RoleName = roleName,
                      !.PackageManager = r.PackageManager],
           err |-> Nil]

\* The branch DeletionManager.Run takes for an operation config.
DeletionMode(opConfig) ==
  IF opConfig.Shared /\ opConfig.AppID # "" THEN "offboarding"
  ELSE IF opConfig.RoleName = SharedRoleName THEN "shared-role"
  ELSE "standard"

\* Errors of the external services, as the workflows wrap them.
ErrNexus == "nexus: upstream error"
ErrIQ == "iq: upstream error"

\* server.operationResult
operationResult(success, error) == [Success |-> success, Error |-> error]

\* Mutant of attemptOperation: an operation config that does not resolve is
\* skipped and reported as a success.
attemptOperationSkipsUnresolved(action, req, nexusFails, iqFails) ==
  LET oc == CreateOpConfig(req, action)
      ran == IF action = MethodDelete THEN DeletionMode(oc.cfg) ELSE "creation"
  IN IF oc.err # Nil
       THEN [result |-> operationResult(TRUE, ""), resolved |-> FALSE,
             opConfig |-> oc.cfg, mode |-> "none"]
     ELSE IF nexusFails
       THEN [result |-> operationResult(FALSE, ErrNexus), resolved |-> TRUE,
             opConfig |-> oc.cfg, mode |-> ran]
     ELSE IF oc.cfg.OrganizationID # "" /\ iqFails
       THEN [result |-> operationResult(FALSE, ErrIQ), resolved |-> TRUE,
             opConfig |-> oc.cfg, mode |-> ran]
     ELSE [result |-> operationResult(TRUE, ""), resolved |-> TRUE,
           opConfig |-> oc.cfg, mode |-> ran]

\* BatchManager.attemptOperation for one request.  nexusFails: the repository
\* manager workflow (CreationManager.Run / DeletionManager.Run) returns an
\* error; iqFails: the organization server step returns an error.  mode is
\* the workflow that ran ("none" if the config did not resolve).
attemptOperation(action, req, nexusFails, iqFails) ==
  LET oc == CreateOpConfig(req, action)
      ran == IF action = MethodDelete THEN DeletionMode(oc.cfg) ELSE "creation"
  IN IF oc.err # Nil
       THEN [result |-> operationResult(FALSE, oc.err), resolved |-> FALSE,
             opConfig |-> oc.cfg, mode |-> "none"]
     ELSE IF nexusFails
       THEN [result |-> operationResult(FALSE, ErrNexus), resolved |-> TRUE,
             opConfig |-> oc.cfg, mode |-> ran]
     ELSE IF oc.cfg.OrganizationID # "" /\ iqFails
       THEN [result |-> operationResult(FALSE, ErrIQ), resolved |-> TRUE,
             opConfig |-> oc.cfg, mode |-> ran]
     ELSE [result |-> operationResult(TRUE, ""), resolved |-> TRUE,
           opConfig |-> oc.cfg, mode |-> ran]

\* ------------------------------------------------------ fan-out and fan-in
\* Mutant of ResultsCap: an unbuffered results channel.
ResultsCapUnbuffered(n) == 0

\* Capacity of the results channel: make(chan batchResult, len(requests)).
ResultsCap(n) == n

\* The batchResult a worker sends: its own request (the goroutine's
\* parameter) and the result of its attemptOperation.
batchResult(req, result) == [request |-> req, result |-> result]

\* config.FailedRequest
FailedRequest(request, reason) == [Request |-> request, Reason |-> reason]

RECURSIVE aggregateLoop(_, _, _)
aggregateLoop(results, i, acc) ==
  IF i > Len(results) THEN acc
  ELSE LET res == results[i]
       IN IF res.result.Success
            THEN aggregateLoop(results, i + 1,
                   [acc EXCEPT !.successfulOps = @ + 1])
            ELSE aggregateLoop(results, i + 1,
                   [acc EXCEPT !.failedOps = @ + 1,
                               !.failedRequests =
                                 Append(@, FailedRequest(res.request,
                                                         res.result.Error))])

\* Mutant of Aggregate: failures are counted but not appended to the list.
AggregateNoFailureList(results) ==
  [aggregateLoop(results, 1,
                 [successfulOps |-> 0, failedOps |-> 0, failedRequests |-> <<>>])
     EXCEPT !.failedRequests = <<>>]

\* The fan-in loop `for res := range results` of ProcessBatchAsync.
Aggregate(results) ==
  aggregateLoop(results, 1,
                [successfulOps |-> 0, failedOps |-> 0, failedRequests |-> <<>>])

\* Mutant of WaitDone: the fan-in does not wait for the workers.
WaitDoneNoWait(b) == TRUE

\* wg.Wait() returns: every worker has called wg.Done().
WaitDone(b) == b.wg = 0

\* Mutant of QueueJob: the job counts every submitted request.
QueueJobAllSubmitted(js, jobID, action, validationResult, requests, t) ==
  CreateJob(js, jobID, action, Len(requests), t)

\* The job ProcessBatchAsync queues: CreateJob(jobID, action, validCount).
QueueJob(js, jobID, action, validationResult, requests, t) ==
  CreateJob(js, jobID, action, Len(validationResult.ValidRequests), t)

\* ------------------------------------------------------------ HTTP responses
\* ResponseBuilder.ConvertValidationErrorsToResponse
ConvertValidationErrorsToResponse(validationErrors) ==
  [i \in DOMAIN validationErrors |->
     [OrganizationName |-> validationErrors[i].Request.OrganizationName,
      LdapUsername |-> validationErrors[i].Request.LdapUsername,
      PackageManager |-> validationErrors[i].Request.PackageManager,
      Shared |-> validationErrors[i].Request.Shared,
      AppID |-> validationErrors[i].Request.AppID,
      ValidationErrors |-> validationErrors[i].Reasons]]

\* No response written yet.
NoResponse == [Code |-> 0]

\* c.JSON(422, BuildErrorResponse(errorCode, errorMessage, details))
BuildErrorResponse(errorCode, errorMessage) ==
  [Code |-> StatusUnprocessableEntity, Success |-> FALSE,
   Error |-> errorCode, Message |-> errorMessage]

\* c.JSON(422, BuildValidationFailedResponse(validationResult))
BuildValidationFailedResponse(validationResult) ==
  [Code |-> StatusUnprocessableEntity, Success |-> FALSE,
   Message |-> MessageValidationFailed, Error |-> ErrorCodeValidationFailed,
   InvalidRequests |->
     [Count |-> Len(validationResult.InvalidRequests),
      Details |-> ConvertValidationErrorsToResponse(validationResult.InvalidRequests)]]

\* c.JSON(202, BuildAcceptedResponse(jobID, total, valid, invalid, result))
BuildAcceptedResponse(jobID, totalRequests, validCount, invalidCount, validationResult) ==
  [Code |-> StatusAccepted, Success |-> TRUE, Message |-> MessageJobQueued,
   JobID |-> jobID, Status |-> StatusPending,
   Validation |->
     [TotalRequests |-> totalRequests, ValidRequests |-> validCount,
      InvalidRequests |-> invalidCount,
      FailedValidations |->
        ConvertValidationErrorsToResponse(validationResult.InvalidRequests)]]

\* Mutant of processBatchOutcome: the all-invalid check is missing.
processBatchOutcomeNoAllInvalid(body, validationResult) ==
  IF ~body.Bound THEN "invalid-body"
  ELSE IF Len(body.Requests) = 0 THEN "empty"
  ELSE "accepted"

\* The branch processBatch takes for a request body.
processBatchOutcome(body, validationResult) ==
  IF ~body.Bound THEN "invalid-body"
  ELSE IF Len(body.Requests) = 0 THEN "empty"
  ELSE IF Len(validationResult.ValidRequests) = 0 THEN "all-invalid"
  ELSE "accepted"

\* ------------------------------------------------------------------- state
VARIABLES
  jobs,        \* JobStore.jobs: job id -> config.Job
  now,         \* the clock behind time.Now(), one tick per store write
  batch,       \* job id -> the background goroutine of ProcessBatchAsync
  hpc,         \* the processBatch handler: "idle" or "respond"
  httpReq,     \* the last submission: action and request body
  validation,  \* the ValidationResult of the last submission
  httpResp,    \* the response written for the last submission
  poll,        \* the getJobStatus handler
  held,        \* job id -> the records the job held after each store operation
  mu,          \* JobStore.mu: the writer holding it and the readers holding it
  calls,       \* goroutine -> its call of a JobStore method in progress
  storeLog,    \* the completed CreateJob / UpdateJob calls, in unlock order
  opc,         \* the last call of Config.CreateOpConfig: inputs and result
  nexus,       \* the repository manager: repositories, privileges, roles, users
  wf,          \* worker -> its creation or deletion workflow in progress
  roleLock,    \* roleModificationLock: the worker holding it, 0 if none
  nexusLog,    \* the calls the workflows issued to the repository manager
  engine,      \* a RoleDecisionEngine used on its own
  payload      \* the body CreateProxyRepository builds, layer after layer

\* The state of the goroutines that call the JobStore methods directly.
storeVars == <<mu, calls, storeLog>>

\* The state of the HTTP handlers and of the background goroutines.
batchVars == <<batch, hpc, httpReq, validation, httpResp, poll, held>>

\* The repository manager and the workflows that call it.
nexusVars == <<nexus, wf, roleLock, nexusLog>>

\* The role decision engine and the payload builder used on their own.
unitVars == <<engine, payload>>

\* The variables the batch orchestration leaves alone.
otherVars == <<storeVars, opc, nexusVars, unitVars>>

\* The variables the JobStore methods leave alone.
outsideStore == <<batchVars, opc, nexusVars, unitVars>>

\* The variables Config.CreateOpConfig leaves alone.
outsideResolver == <<jobs, now, batchVars, storeVars, nexusVars, unitVars>>

\* The variables the creation and deletion workflows leave alone.
outsideNexus == <<jobs, now, batchVars, storeVars, opc, unitVars>>

\* The variables the role decision engine and the payload builder leave
\* alone.
outsideUnits == <<jobs, now, batchVars, storeVars, opc, nexusVars>>

vars == <<jobs, now, batch, hpc, httpReq, validation, httpResp, poll, held,
          otherVars>>

\* uuid.New(): an id no job has.
JobIDs == 1..MaxJobs
NewJobID == Cardinality(DOMAIN jobs) + 1

EmptyValidation == [ValidRequests |-> <<>>, InvalidRequests |-> <<>>]

\* No submission is being handled.
NoRequest == [action |-> "", body |-> [Bound |-> FALSE, Requests |-> <<>>]]

\* The fields of config.Job in declaration order, the order in which
\* toCamelCaseMap reads them.
JobFields ==
  <<"ID", "Status", "Action", "CreatedAt", "UpdatedAt", "TotalRequests",
    "SuccessfulOperations", "FailedOperations", "NotProcessedOperations",
    "FailedRequests", "Message">>

PollIdle == [pc |-> "idle", id |-> 0, idx |-> 0, snap |-> <<>>, code |-> 0]

\* Config.CreateOpConfig has not been called.
NoResolution ==
  [called |-> FALSE, req |-> [OrganizationName |-> "", LdapUsername |-> "",
                              PackageManager |-> "", Shared |-> FALSE,
                              AppID |-> ""],
   action |-> "", out |-> [cfg |-> ZeroOperationConfig, err |-> Nil]]

\* The roles GET /api/v2/roles of the organization server answers with.
IQRoles == <<[Name |-> "Owner", ID |-> "owner-role-id"]>>

\* A repository manager that holds nothing.
\* fault names the call the servers answer with a 500 the next time it
\* is issued ("" for none).
EmptyNexus ==
  [repos |-> {}, privs |-> {}, roles |-> <<>>, users |-> <<>>, fault |-> "",
   iqRoles |-> IQRoles, owners |-> {}]

\* The workers that run workflows against the repository manager.
Workers == 1..MaxDeleters

\* GetRole / GetUser found nothing (nil).
NoRole == [found |-> FALSE, ID |-> "", Privileges |-> <<>>]
NoUser == [found |-> FALSE, UserID |-> "", Status |-> "", Roles |-> <<>>,
           LastName |-> "", EmailAddress |-> ""]

\* A worker outside any workflow.
WfIdle ==
  [pc |-> "idle", kind |-> "", cfg |-> ZeroOperationConfig, runs |-> 0,
   errs |-> <<>>, role |-> NoRole, user |-> NoUser, todo |-> <<>>,
   listed |-> [repos |-> <<>>, privs |-> <<>>], ends |-> <<>>,
   start |-> EmptyNexus, result |-> operationResult(FALSE, "")]

\* sync.RWMutex, unlocked: no writer (0) and no reader.
MuFree == [writer |-> 0, readers |-> {}]

\* The goroutines that call the JobStore methods.
Clients == 1..MaxClients

\* A goroutine outside any JobStore method.
CallIdle ==
  [pc |-> "idle", op |-> "", id |-> 0, action |-> "", n |-> 0, fn |-> "",
   before |-> <<>>, ran |-> FALSE, t |-> 0,
   ret |-> [job |-> Nil, exists |-> FALSE, err |-> Nil], made |-> 0]

\* No RoleDecisionEngine has been made.
NoEngine ==
  [pc |-> "none", configured |-> [base |-> <<>>, extra |-> <<>>],
   baseRoles |-> <<>>, extraRoles |-> <<>>, afterRemoval |-> <<>>,
   final |-> <<>>, hasOther |-> FALSE, rounds |-> <<>>]

\* CreateProxyRepository has not been called.
NoPayload ==
  [pc |-> "none", format |-> "", config |-> ZeroOperationConfig,
   layers |-> <<>>, body |-> <<>>]

Init ==
  /\ jobs = <<>>
  /\ now = 0
  /\ batch = <<>>
  /\ hpc = "idle"
  /\ httpReq = NoRequest
  /\ validation = EmptyValidation
  /\ httpResp = NoResponse
  /\ poll = PollIdle
  /\ held = <<>>
  /\ mu = MuFree
  /\ calls = [c \in Clients |-> CallIdle]
  /\ storeLog = <<>>
  /\ opc = NoResolution
  /\ nexus = EmptyNexus
  /\ wf = [w \in Workers |-> WfIdle]
  /\ roleLock = 0
  /\ nexusLog = {}
  /\ engine = NoEngine
  /\ payload = NoPayload

\* ------------------------------------------------------------ processBatch
\* BatchManager.ProcessBatchAsync up to its return: the job is created and
\* the background goroutine launched.
ProcessBatchAsync(validationResult, body, action) ==
  LET jobID == NewJobID
      totalRequests == Len(body.Requests)
      validCount == Len(validationResult.ValidRequests)
      invalidCount == Len(validationResult.InvalidRequests)
  IN /\ jobs' = QueueJob(jobs, jobID, action, validationResult, body.Requests, now)
     /\ now' = now + 1
     /\ held' = (jobID :> {jobs'[jobID]}) @@ held
     /\ batch' = (jobID :> [pc |-> "start", action |-> action,
                            requests |-> validationResult.ValidRequests,
                            workers |-> <<>>, results |-> <<>>, wg |-> 0])
                 @@ batch
     /\ httpResp' = BuildAcceptedResponse(jobID, totalRequests, validCount,
                                           invalidCount, validationResult)

\* Handler.processBatch (createBatch / deleteBatch) up to c.JSON.
processBatch(action, body) ==
  /\ hpc = "idle"
  /\ Cardinality(DOMAIN jobs) < MaxJobs
  /\ hpc' = "respond"
  /\ httpReq' = [action |-> action, body |-> body]
  /\ UNCHANGED <<poll, otherVars>>
  /\ LET validationResult == IF body.Bound
                               THEN validateBatchRequest(body.Requests, action)
                               ELSE EmptyValidation
         outcome == processBatchOutcome(body, validationResult)
     IN /\ validation' = validationResult
        /\ CASE outcome = "invalid-body" ->
                  /\ httpResp' = BuildErrorResponse(ErrorCodeInvalidRequestBody,
                                                    MessageInvalidRequestBody)
                  /\ UNCHANGED <<jobs, now, batch, held>>
             [] outcome = "empty" ->
                  /\ httpResp' = BuildErrorResponse(ErrorCodeValidationFailed,
                                                    MessageBatchEmpty)
                  /\ UNCHANGED <<jobs, now, batch, held>>
             [] outcome = "all-invalid" ->
                  /\ httpResp' = BuildValidationFailedResponse(validationResult)
                  /\ UNCHANGED <<jobs, now, batch, held>>
             [] OTHER ->
                  ProcessBatchAsync(validationResult, body, action)

\* Mutant of Respond: the handler answers only after every background
\* goroutine has finalized its job.
RespondAfterWorkers ==
  /\ hpc = "respond"
  /\ \A j \in DOMAIN batch : batch[j].pc = "done"
  /\ hpc' = "idle"
  /\ httpReq' = NoRequest
  /\ validation' = EmptyValidation
  /\ httpResp' = NoResponse
  /\ UNCHANGED <<jobs, now, batch, poll, held,
               otherVars>>

\* c.JSON returns: the response is on the wire, the handler returns and its
\* locals (batch, validationResult, the response) are gone.
Respond ==
  /\ hpc = "respond"
  /\ hpc' = "idle"
  /\ httpReq' = NoRequest
  /\ validation' = EmptyValidation
  /\ httpResp' = NoResponse
  /\ UNCHANGED <<jobs, now, batch, poll, held,
               otherVars>>

\* ------------------------------------------------- background goroutine
\* tracker.SetProcessing(), then the fan-out loop: one worker goroutine per
\* valid request, each holding its own copy of the request.
StartProcessing(j) ==
  /\ j \in DOMAIN batch
  /\ batch[j].pc = "start"
  /\ jobs' = UpdateJob(jobs, j, [job \in {jobs[j]} |-> SetProcessing(job)],
                      now).store
  /\ now' = now + 1
  /\ held' = [held EXCEPT ![j] = @ \cup {jobs'[j]}]
  /\ batch' = [batch EXCEPT
       ![j].pc = "waiting",
       ![j].wg = Len(batch[j].requests),
       ![j].workers =
          [i \in DOMAIN batch[j].requests |->
             [pc |-> "running", req |-> batch[j].requests[i],
              result |-> operationResult(FALSE, ""), resolved |-> FALSE,
              opConfig |-> ZeroOperationConfig, mode |-> "none"]]]
  /\ UNCHANGED <<hpc, httpReq, validation, httpResp, poll,
               otherVars>>

\* A worker runs attemptOperation for its request.
Attempt(j, i) ==
  /\ j \in DOMAIN batch
  /\ i \in DOMAIN batch[j].workers
  /\ batch[j].workers[i].pc = "running"
  /\ \E nexusFails \in BOOLEAN, iqFails \in BOOLEAN :
       LET a == attemptOperation(batch[j].action, batch[j].workers[i].req,
                                 nexusFails, iqFails)
       IN batch' = [batch EXCEPT ![j].workers[i] =
                      [pc |-> "attempted", req |-> @.req, result |-> a.result,
                       resolved |-> a.resolved, opConfig |-> a.opConfig,
                       mode |-> a.mode]]
  /\ UNCHANGED <<jobs, now, hpc, httpReq, validation, httpResp, poll, held,
               otherVars>>

\* A worker delivers its result (results <- batchResult{...}) and, on
\* return, runs the deferred wg.Done().  The send blocks while the channel
\* is full.
Send(j, i) ==
  /\ j \in DOMAIN batch
  /\ i \in DOMAIN batch[j].workers
  /\ batch[j].workers[i].pc = "attempted"
  /\ Len(batch[j].results) < ResultsCap(Len(batch[j].requests))
  /\ batch' = [batch EXCEPT
       ![j].workers[i].pc = "sent",
       ![j].results = Append(@, batchResult(batch[j].workers[i].req,
                                            batch[j].workers[i].result)),
       ![j].wg = @ - 1]
  /\ UNCHANGED <<jobs, now, hpc, httpReq, validation, httpResp, poll, held,
               otherVars>>

\* wg.Wait() returns, the channel is closed and drained, and the job is
\* finalized: tracker.Finalize(successfulOps, failedOps, 0, len(requests), ...).
FanIn(j) ==
  /\ j \in DOMAIN batch
  /\ batch[j].pc = "waiting"
  /\ WaitDone(batch[j])
  /\ LET agg == Aggregate(batch[j].results)
         fin == [job \in {jobs[j]} |->
                   Finalize(job, agg.successfulOps, agg.failedOps, 0,
                            Len(batch[j].requests), agg.failedRequests)]
     IN jobs' = UpdateJob(jobs, j, fin, now).store
  /\ now' = now + 1
  /\ held' = [held EXCEPT ![j] = @ \cup {jobs'[j]}]
  /\ batch' = [batch EXCEPT ![j].pc = "done"]
  /\ UNCHANGED <<hpc, httpReq, validation, httpResp, poll,
               otherVars>>

\* ------------------------------------------------------------ getJobStatus
\* Handler.getJobStatus up to GetJob's return: the handler holds the pointer
\* to the stored job (the read lock is released), or answers 404.
PollGet(id) ==
  /\ poll.pc = "idle"
  /\ LET got == GetJob(jobs, id)
     IN poll' = IF got.exists
                  THEN [pc |-> "reading", id |-> id, idx |-> 1, snap |-> <<>>,
                        code |-> 0]
                  ELSE [pc |-> "respond", id |-> id, idx |-> 0, snap |-> <<>>,
                        code |-> StatusNotFound]
  /\ UNCHANGED <<jobs, now, batch, hpc, httpReq, validation, httpResp, held,
               otherVars>>

\* BuildJobResponse -> toCamelCaseMap reads the next field through the
\* pointer, outside the store's lock.
PollRead ==
  /\ poll.pc = "reading"
  /\ LET f == JobFields[poll.idx]
         snap == (f :> jobs[poll.id][f]) @@ poll.snap
     IN poll' = IF poll.idx = Len(JobFields)
                  THEN [poll EXCEPT !.pc = "respond", !.snap = snap,
                                    !.code = StatusOK]
                  ELSE [poll EXCEPT !.idx = @ + 1, !.snap = snap]
  /\ UNCHANGED <<jobs, now, batch, hpc, httpReq, validation, httpResp, held,
               otherVars>>

\* c.JSON returns: the job record (or the 404) is on the wire.
PollRespond ==
  /\ poll.pc = "respond"
  /\ poll' = PollIdle
  /\ UNCHANGED <<jobs, now, batch, hpc, httpReq, validation, httpResp, held,
               otherVars>>

\* ------------------------------------------------------------ specification
Next ==
  \/ \E action \in Actions, body \in Bodies : processBatch(action, body)
  \/ Respond
  \/ \E j \in JobIDs : StartProcessing(j)
  \/ \E j \in JobIDs, i \in 1..MaxBatch : Attempt(j, i)
  \/ \E j \in JobIDs, i \in 1..MaxBatch : Send(j, i)
  \/ \E j \in JobIDs : FanIn(j)
  \/ \E id \in JobIDs : PollGet(id)
  \/ PollRead
  \/ PollRespond

Spec == Init /\ [][Next]_vars

\* The goroutine scheduler runs every runnable goroutine, and every call to
\* an external service returns (each carries a timeout): a step of the
\* background goroutine or of a worker that stays enabled is taken.
Fairness ==
  /\ \A j \in JobIDs : WF_vars(StartProcessing(j))
  /\ \A j \in JobIDs, i \in 1..MaxBatch : WF_vars(Attempt(j, i))
  /\ \A j \in JobIDs, i \in 1..MaxBatch : WF_vars(Send(j, i))
  /\ \A j \in JobIDs : WF_vars(FanIn(j))

FairSpec == Spec /\ Fairness

\* ------------------------------------------- batches of create requests
\* POST /repositories with batches of up to MaxCreateBatch requests: a
\* request that resolves, one that names an organization the configuration
\* does not have, and one that names a package manager it does not have.
CreateRequests ==
  {[OrganizationName |-> "org1", LdapUsername |-> "user1",
    PackageManager |-> "npm", Shared |-> FALSE, AppID |-> "app-9"],
   [OrganizationName |-> "invalid-org", LdapUsername |-> "user1",
    PackageManager |-> "npm", Shared |-> FALSE, AppID |-> "app-9"],
   [OrganizationName |-> "org1", LdapUsername |-> "user1",
    PackageManager |-> "pypi", Shared |-> FALSE, AppID |-> "app-9"]}

CreateBodies ==
  {[Bound |-> TRUE, Requests |-> s] : s \in SeqsUpTo(CreateRequests, MaxCreateBatch)}

CreateNext ==
  \/ \E body \in CreateBodies : processBatch(MethodCreate, body)
  \/ Respond
  \/ \E j \in JobIDs : StartProcessing(j)
  \/ \E j \in JobIDs, i \in 1..MaxCreateBatch : Attempt(j, i)
  \/ \E j \in JobIDs, i \in 1..MaxCreateBatch : Send(j, i)
  \/ \E j \in JobIDs : FanIn(j)

CreateSpec == Init /\ [][CreateNext]_vars

\* ------------------------------------------- JobStore under concurrency
\* The JobStore methods step by step, called by MaxClients goroutines: each
\* method takes js.mu (Lock or RLock), works on js.jobs and releases the
\* mutex on return (defer).
StoreIDs == 1..MaxStoreJobs

\* The mutators the callers pass to UpdateJob.
Mutators == {"SetProcessing", "MarkFailed", "TestUpdate"}

\* updateFn(job) for the mutator named fn.
ApplyMutator(fn, job) ==
  CASE fn = "SetProcessing" -> SetProcessing(job)
    [] fn = "MarkFailed" -> MarkFailed(job, job.TotalRequests)
    [] OTHER -> [job EXCEPT !.Status = JobStatusProcessing,
                            !.SuccessfulOperations = 5]

\* Mutant of MuCanLock: Lock does not wait for the holders of the mutex.
MuCanLockNoWait(m) == TRUE

\* mu.Lock() returns: no writer and no reader holds the mutex.
MuCanLock(m) == m.writer = 0 /\ m.readers = {}

\* mu.RLock() returns: no writer holds the mutex.
MuCanRLock(m) == m.writer = 0

\* uuid.New(): an id that no job has and no CreateJob in progress uses.
FreshID(id) ==
  /\ id \notin DOMAIN jobs
  /\ \A d \in Clients :
       ~(calls[d].op = "create" /\ calls[d].pc # "idle" /\ calls[d].id = id)

\* A goroutine calls js.CreateJob(id, action, n) with a fresh id.
StoreCallCreate(c, id, action, n) ==
  /\ calls[c].pc = "idle"
  /\ calls[c].made < MaxCalls
  /\ FreshID(id)
  /\ calls' = [calls EXCEPT ![c] =
       [CallIdle EXCEPT !.pc = "lock", !.op = "create", !.id = id,
                        !.action = action, !.n = n, !.made = calls[c].made]]
  /\ UNCHANGED <<jobs, now, mu, storeLog, outsideStore>>

\* A goroutine calls js.GetJob(id).
StoreCallGet(c, id) ==
  /\ calls[c].pc = "idle"
  /\ calls[c].made < MaxCalls
  /\ calls' = [calls EXCEPT ![c] =
       [CallIdle EXCEPT !.pc = "rlock", !.op = "get", !.id = id,
                        !.made = calls[c].made]]
  /\ UNCHANGED <<jobs, now, mu, storeLog, outsideStore>>

\* A goroutine calls js.UpdateJob(id, updateFn).
StoreCallUpdate(c, id, fn) ==
  /\ calls[c].pc = "idle"
  /\ calls[c].made < MaxCalls
  /\ calls' = [calls EXCEPT ![c] =
       [CallIdle EXCEPT !.pc = "lock", !.op = "update", !.id = id,
                        !.fn = fn, !.made = calls[c].made]]
  /\ UNCHANGED <<jobs, now, mu, storeLog, outsideStore>>

\* js.mu.Lock() of CreateJob and UpdateJob.
StoreLock(c) ==
  /\ calls[c].pc = "lock"
  /\ MuCanLock(mu)
  /\ mu' = [mu EXCEPT !.writer = c]
  /\ calls' = [calls EXCEPT
       ![c].pc = IF calls[c].op = "create" THEN "insert" ELSE "lookup",
       ![c].before = jobs]
  /\ UNCHANGED <<jobs, now, storeLog, outsideStore>>

\* CreateJob: the Job literal is built and stored, js.jobs[id] = job.
StoreInsert(c) ==
  /\ calls[c].pc = "insert"
  /\ jobs' = CreateJob(jobs, calls[c].id, calls[c].action, calls[c].n, now)
  /\ now' = now + 1
  /\ calls' = [calls EXCEPT ![c].pc = "unlock", ![c].t = now,
                            ![c].ret.job = jobs'[calls[c].id],
                            ![c].ret.exists = TRUE]
  /\ UNCHANGED <<mu, storeLog, outsideStore>>

\* Mutant of StoreLookup: the existence check is missing.
StoreLookupNoCheck(c) ==
  /\ calls[c].pc = "lookup"
  /\ calls' = [calls EXCEPT ![c].pc = "mutate"]
  /\ UNCHANGED <<jobs, now, mu, storeLog, outsideStore>>

\* UpdateJob: job, exists := js.jobs[id]; the not-found error if absent.
StoreLookup(c) ==
  /\ calls[c].pc = "lookup"
  /\ calls' = IF calls[c].id \notin DOMAIN jobs
       THEN [calls EXCEPT ![c].pc = "unlock", ![c].ret.err = "job not found"]
       ELSE [calls EXCEPT ![c].pc = "mutate"]
  /\ UNCHANGED <<jobs, now, mu, storeLog, outsideStore>>

\* UpdateJob: updateFn(job), on the job the lookup found.
StoreMutate(c) ==
  /\ calls[c].pc = "mutate"
  /\ jobs' = [jobs EXCEPT ![calls[c].id] =
                ApplyMutator(calls[c].fn, calls[c].before[calls[c].id])]
  /\ calls' = [calls EXCEPT ![c].pc = "stamp", ![c].ran = TRUE]
  /\ UNCHANGED <<now, mu, storeLog, outsideStore>>

\* UpdateJob: job.UpdatedAt = time.Now(); return nil.
StoreStamp(c) ==
  /\ calls[c].pc = "stamp"
  /\ jobs' = [jobs EXCEPT ![calls[c].id].UpdatedAt = now]
  /\ now' = now + 1
  /\ calls' = [calls EXCEPT ![c].pc = "unlock", ![c].t = now]
  /\ UNCHANGED <<mu, storeLog, outsideStore>>

\* The deferred js.mu.Unlock() of CreateJob and UpdateJob; the call returns.
StoreUnlock(c) ==
  /\ calls[c].pc = "unlock"
  /\ mu' = [mu EXCEPT !.writer = 0]
  /\ storeLog' = Append(storeLog,
       [op |-> calls[c].op, id |-> calls[c].id, action |-> calls[c].action,
        n |-> calls[c].n, fn |-> calls[c].fn, t |-> calls[c].t,
        client |-> c])
  /\ calls' = [calls EXCEPT ![c].pc = "idle", ![c].made = @ + 1]
  /\ UNCHANGED <<jobs, now, outsideStore>>

\* js.mu.RLock() of GetJob.
StoreRLock(c) ==
  /\ calls[c].pc = "rlock"
  /\ MuCanRLock(mu)
  /\ mu' = [mu EXCEPT !.readers = @ \cup {c}]
  /\ calls' = [calls EXCEPT ![c].pc = "get"]
  /\ UNCHANGED <<jobs, now, storeLog, outsideStore>>

\* GetJob: job, exists := js.jobs[id].
StoreGet(c) ==
  /\ calls[c].pc = "get"
  /\ LET got == GetJob(jobs, calls[c].id)
     IN calls' = [calls EXCEPT ![c].pc = "runlock",
                               ![c].ret.job = got.job,
                               ![c].ret.exists = got.exists]
  /\ UNCHANGED <<jobs, now, mu, storeLog, outsideStore>>

\* The deferred js.mu.RUnlock() of GetJob; the call returns.
StoreRUnlock(c) ==
  /\ calls[c].pc = "runlock"
  /\ mu' = [mu EXCEPT !.readers = @ \ {c}]
  /\ calls' = [calls EXCEPT ![c].pc = "idle", ![c].made = @ + 1]
  /\ UNCHANGED <<jobs, now, storeLog, outsideStore>>

StoreNext ==
  \/ \E c \in Clients, id \in StoreIDs, n \in 1..2 :
       StoreCallCreate(c, id, MethodCreate, n)
  \/ \E c \in Clients, id \in StoreIDs : StoreCallGet(c, id)
  \/ \E c \in Clients, id \in StoreIDs, fn \in Mutators : StoreCallUpdate(c, id, fn)
  \/ \E c \in Clients : StoreLock(c)
  \/ \E c \in Clients : StoreInsert(c)
  \/ \E c \in Clients : StoreLookup(c)
  \/ \E c \in Clients : StoreMutate(c)
  \/ \E c \in Clients : StoreStamp(c)
  \/ \E c \in Clients : StoreUnlock(c)
  \/ \E c \in Clients : StoreRLock(c)
  \/ \E c \in Clients : StoreGet(c)
  \/ \E c \in Clients : StoreRUnlock(c)

StoreSpec == Init /\ [][StoreNext]_vars

\* --------------------------------------------- operation config resolver
\* Config.CreateOpConfig called on any request over these field values.
ResolverRequests ==
  [OrganizationName : {"org1", "invalid-org"}, LdapUsername : {"user1", "user2"},
   PackageManager : {"", "npm", "NPM", "pypi"}, Shared : BOOLEAN,
   AppID : {"", "app-9", "App-1"}]

\* opConfig, err := cfg.CreateOpConfig(req, action)
Resolve(r, action) ==
  /\ opc' = [called |-> TRUE, req |-> r, action |-> action,
             out |-> CreateOpConfig(r, action)]
  /\ UNCHANGED outsideResolver

ResolverNext == \E r \in ResolverRequests, action \in Actions : Resolve(r, action)

ResolverSpec == Init /\ [][ResolverNext]_vars

\* ------------------------------------------------- repository manager client
\* The errors of client.HTTPClient.DoReq for the answers 404 and 400; a
\* wrapped error (fmt.Errorf with %w) is the error it wraps.
ErrHTTPNotFound == "HTTPError 404"
ErrHTTPBadRequest == "HTTPError 400"
ErrHTTPServer == "HTTPError 500"
ErrUnsupportedFormat == "unsupported package manager format"
ErrUserNotFound(name) == "user '" \o name \o "' not found"

Contains(seq, x) == \E i \in DOMAIN seq : seq[i] = x

\* The sequence without its first element equal to x.
RemoveFirst(seq, x) ==
  IF ~Contains(seq, x) THEN seq
  ELSE LET i == CHOOSE k \in DOMAIN seq :
                  seq[k] = x /\ \A m \in 1..(k - 1) : seq[m] # x
       IN [k \in 1..(Len(seq) - 1) |-> IF k < i THEN seq[k] ELSE seq[k + 1]]

\* The outage ends with the call it hit: the call is answered with a 500
\* once.
Answered(nx) == [nx EXCEPT !.fault = ""]

\* nexusClient.GetRepository / GetPrivilege: the error, nil if it exists.
ClientGetRepository(nx, name) == IF name \in nx.repos THEN Nil ELSE ErrHTTPNotFound
ClientGetPrivilege(nx, name) == IF name \in nx.privs THEN Nil ELSE ErrHTTPNotFound

\* nexusClient.CreateProxyRepository: POST to the format's endpoint; the
\* repository manager refuses a name it already has.
ClientCreateProxyRepository(nx, cfg) ==
  IF ToLower(cfg.PackageManager) \notin DOMAIN PackageManagers
    THEN [nexus |-> nx, err |-> ErrUnsupportedFormat, sent |-> FALSE]
  ELSE IF nx.fault = "CreateProxyRepository"
    THEN [nexus |-> Answered(nx), err |-> ErrHTTPServer, sent |-> TRUE]
  ELSE IF cfg.RepositoryName \in nx.repos
    THEN [nexus |-> nx, err |-> ErrHTTPBadRequest, sent |-> TRUE]
  ELSE [nexus |-> [nx EXCEPT !.repos = @ \cup {cfg.RepositoryName}],
        err |-> Nil, sent |-> TRUE]

\* nexusClient.CreatePrivilege
ClientCreatePrivilege(nx, cfg) ==
  IF nx.fault = "CreatePrivilege" THEN [nexus |-> Answered(nx), err |-> ErrHTTPServer]
  ELSE IF cfg.PrivilegeName \in nx.privs
    THEN [nexus |-> nx, err |-> ErrHTTPBadRequest]
    ELSE [nexus |-> [nx EXCEPT !.privs = @ \cup {cfg.PrivilegeName}], err |-> Nil]

\* nexusClient.GetRole: nil, not an error, when the role is absent.
ClientGetRole(nx, name) ==
  IF name \in DOMAIN nx.roles
    THEN [found |-> TRUE, ID |-> name, Privileges |-> nx.roles[name]]
    ELSE NoRole

\* nexusClient.CreateRole: a 400 (the role exists) is taken as success.
ClientCreateRole(nx, cfg) ==
  IF nx.fault = "CreateRole" THEN [nexus |-> Answered(nx), err |-> ErrHTTPServer]
  ELSE IF cfg.RoleName \in DOMAIN nx.roles
    THEN [nexus |-> nx, err |-> Nil]
    ELSE [nexus |-> [nx EXCEPT !.roles = (cfg.RoleName :> <<cfg.PrivilegeName>>) @@ @],
          err |-> Nil]

\* nexusClient.UpdateRole
ClientUpdateRole(nx, role) ==
  IF role.ID = "" THEN [nexus |-> nx, err |-> "update role: role id is empty"]
  ELSE IF nx.fault = "UpdateRole" THEN [nexus |-> Answered(nx), err |-> ErrHTTPServer]
  ELSE IF role.ID \notin DOMAIN nx.roles
    THEN [nexus |-> nx, err |-> ErrHTTPNotFound]
  ELSE [nexus |-> [nx EXCEPT !.roles[role.ID] = role.Privileges], err |-> Nil]

\* nexusClient.GetUser: nil when no user has the id.
ClientGetUser(nx, userID) ==
  IF userID \in DOMAIN nx.users
    THEN [found |-> TRUE, UserID |-> userID, Status |-> nx.users[userID].Status,
          Roles |-> nx.users[userID].Roles,
          LastName |-> nx.users[userID].LastName,
          EmailAddress |-> nx.users[userID].EmailAddress]
    ELSE NoUser

\* What nexusClient.UpdateUser sends: the user with the two fields it
\* always sets.
SentUser(user) ==
  [user EXCEPT !.EmailAddress = "useless@example.com", !.LastName = "useless"]

\* nexusClient.UpdateUser
ClientUpdateUser(nx, user) ==
  IF user.UserID = "" THEN [nexus |-> nx, err |-> "update user: userId is empty"]
  ELSE IF nx.fault = "UpdateUser" THEN [nexus |-> Answered(nx), err |-> ErrHTTPServer]
  ELSE IF user.UserID \notin DOMAIN nx.users
    THEN [nexus |-> nx, err |-> ErrHTTPNotFound]
  ELSE [nexus |-> [nx EXCEPT !.users[user.UserID] =
                     [Status |-> user.Status, Roles |-> user.Roles,
                      LastName |-> SentUser(user).LastName,
                      EmailAddress |-> SentUser(user).EmailAddress]],
        err |-> Nil]

\* One call issued to the repository manager: notFound tells that it was
\* answered 404, ret is the error the workflow step returns after it.
LogEntry(w, call, name, notFound, ret, user) ==
  [w |-> w, run |-> wf[w].runs + 1,
   seq |-> Cardinality({e \in nexusLog : e.w = w}) + 1,
   call |-> call, name |-> name, notFound |-> notFound, ret |-> ret,
   user |-> user]

\* The calls issued so far, with e added.
Logged(e) == nexusLog \cup {e}

\* The workflow of worker w returns err (Nil on success).
WfReturn(w, err, nx) ==
  [wf[w] EXCEPT !.pc = "done", !.runs = @ + 1, !.errs = Append(@, err),
                !.ends = Append(@, nx)]

\* ------------------------------------------------------- creation workflow
\* A user record of the repository manager.
NexusUser(status, roles) ==
  [Status |-> status, Roles |-> roles, LastName |-> "Doe",
   EmailAddress |-> "user1@example.com"]

\* The repository manager as the administrators left it before a creation
\* workflow runs: users are provisioned out of band.
CreationStates ==
  {[repos |-> r, privs |-> p, roles |-> ro, users |-> u, fault |-> "",
   iqRoles |-> IQRoles, owners |-> {}] :
     r \in SUBSET {"npm-release-app-9"},
     p \in SUBSET {"npm-release-app-9"},
     ro \in {<<>>, [n \in {"user1"} |-> <<>>],
             [n \in {"user1"} |-> <<"npm-release-app-9">>],
             [n \in {"user1"} |-> <<"npm-release-app-1">>],
             [n \in {"repositories.share"} |-> <<"npm-release-app-1">>]},
     u \in {<<>>,
            [n \in {"user1"} |-> NexusUser("active", <<>>)],
            [n \in {"user1"} |-> NexusUser("active", <<"other-role", "user1">>)],
            [n \in {"user1"} |-> NexusUser("disabled", <<"base-role">>)]}}

\* The operation configs of the create requests the workers run.
CreationConfigs ==
  {CreateOpConfig([OrganizationName |-> "org1", LdapUsername |-> "user1",
                   PackageManager |-> pm, Shared |-> sh,
                   AppID |-> IF sh THEN "" ELSE "app-9"], MethodCreate).cfg :
     pm \in {"npm", "NPM"}, sh \in BOOLEAN}

\* The state of the repository manager when the first workflow starts.
NexusSetup(nx) ==
  /\ nexus = EmptyNexus
  /\ nexusLog = {}
  /\ \A w \in Workers : wf[w] = WfIdle
  /\ nx # EmptyNexus
  /\ nexus' = nx
  /\ UNCHANGED <<wf, roleLock, nexusLog, outsideNexus>>

\* service.NewCreationManager(opConfig, bm.nexus).Run() is called.
CreationRun(w, cfg) ==
  /\ wf[w].pc = "idle"
  /\ wf' = [wf EXCEPT ![w] = [WfIdle EXCEPT !.pc = "c.getRepo", !.kind = "create",
                                            !.cfg = cfg, !.start = nexus]]
  /\ UNCHANGED <<nexus, roleLock, nexusLog, outsideNexus>>

\* The same request is submitted again: the workflow runs once more.
CreationRerun(w) ==
  /\ wf[w].pc = "done"
  /\ wf[w].kind = "create"
  /\ wf[w].runs < MaxRuns
  /\ wf' = [wf EXCEPT ![w].pc = "c.getRepo", ![w].role = NoRole,
                      ![w].user = NoUser]
  /\ UNCHANGED <<nexus, roleLock, nexusLog, outsideNexus>>

\* Mutant of SkipCreation: the resource is created whatever the lookup says.
SkipCreationNever(err) == FALSE

\* CreateRepository / CreatePrivilege: `if err == nil` after the lookup, the
\* resource exists and the creation is skipped.
SkipCreation(err) == err = Nil

\* NexusCreator.CreateRepository: nc.nexus.GetRepository(name).
CreateRepositoryLookup(w) ==
  /\ wf[w].pc = "c.getRepo"
  /\ LET err == ClientGetRepository(nexus, wf[w].cfg.RepositoryName)
     IN /\ wf' = [wf EXCEPT ![w].pc = IF SkipCreation(err) THEN "c.getPriv"
                                       ELSE "c.createRepo"]
        /\ nexusLog' = Logged(
             LogEntry(w, "GetRepository", wf[w].cfg.RepositoryName,
                      err = ErrHTTPNotFound, Nil, NoUser))
  /\ UNCHANGED <<nexus, roleLock, outsideNexus>>

\* NexusCreator.CreateRepository: nc.nexus.CreateProxyRepository(opConfig).
CreateRepositoryCreate(w) ==
  /\ wf[w].pc = "c.createRepo"
  /\ LET r == ClientCreateProxyRepository(nexus, wf[w].cfg)
     IN /\ nexus' = r.nexus
        /\ wf' = [wf EXCEPT ![w] = IF r.err # Nil THEN WfReturn(w, r.err, r.nexus)
                                   ELSE [wf[w] EXCEPT !.pc = "c.getPriv"]]
        /\ nexusLog' = Logged(
             LogEntry(w, "CreateProxyRepository", wf[w].cfg.RepositoryName,
                      FALSE, r.err, NoUser))
  /\ UNCHANGED <<roleLock, outsideNexus>>

\* NexusCreator.CreatePrivilege: nc.nexus.GetPrivilege(name).
CreatePrivilegeLookup(w) ==
  /\ wf[w].pc = "c.getPriv"
  /\ LET err == ClientGetPrivilege(nexus, wf[w].cfg.PrivilegeName)
     IN /\ wf' = [wf EXCEPT ![w].pc = IF SkipCreation(err) THEN "c.lock"
                                       ELSE "c.createPriv"]
        /\ nexusLog' = Logged(
             LogEntry(w, "GetPrivilege", wf[w].cfg.PrivilegeName,
                      err = ErrHTTPNotFound, Nil, NoUser))
  /\ UNCHANGED <<nexus, roleLock, outsideNexus>>

\* NexusCreator.CreatePrivilege: nc.nexus.CreatePrivilege(opConfig).
CreatePrivilegeCreate(w) ==
  /\ wf[w].pc = "c.createPriv"
  /\ LET r == ClientCreatePrivilege(nexus, wf[w].cfg)
     IN /\ nexus' = r.nexus
        /\ wf' = [wf EXCEPT ![w] = IF r.err # Nil THEN WfReturn(w, r.err, r.nexus)
                                   ELSE [wf[w] EXCEPT !.pc = "c.lock"]]
        /\ nexusLog' = Logged(
             LogEntry(w, "CreatePrivilege", wf[w].cfg.PrivilegeName,
                      FALSE, r.err, NoUser))
  /\ UNCHANGED <<roleLock, outsideNexus>>

\* Mutant of AddPrivilegeToRoleLock: the lock is taken without waiting for
\* its holder.
AddPrivilegeToRoleNoWait(w) ==
  /\ wf[w].pc = "c.lock"
  /\ roleLock' = w
  /\ wf' = [wf EXCEPT ![w].pc = "c.getRole"]
  /\ UNCHANGED <<nexus, nexusLog, outsideNexus>>

\* NexusCreator.AddPrivilegeToRole: roleModificationLock.Lock().
AddPrivilegeToRoleLock(w) ==
  /\ wf[w].pc = "c.lock"
  /\ roleLock = 0
  /\ roleLock' = w
  /\ wf' = [wf EXCEPT ![w].pc = "c.getRole"]
  /\ UNCHANGED <<nexus, nexusLog, outsideNexus>>

\* Mutant of AddPrivilegeToRoleGetRole: the role to send back lists the new
\* privilege alone.
AddPrivilegeToRoleOverwrite(w) ==
  /\ wf[w].pc = "c.getRole"
  /\ LET role == ClientGetRole(nexus, wf[w].cfg.RoleName)
         has == role.found /\ Contains(role.Privileges, wf[w].cfg.PrivilegeName)
     IN /\ wf' = [wf EXCEPT
             ![w].pc = IF has THEN "c.getUser"
                       ELSE IF role.found THEN "c.updateRole" ELSE "c.createRole",
             ![w].role = IF role.found /\ ~has
                           THEN [role EXCEPT !.Privileges =
                                   <<wf[w].cfg.PrivilegeName>>]
                           ELSE role]
        /\ roleLock' = IF has THEN 0 ELSE roleLock
        /\ nexusLog' = Logged(
             LogEntry(w, "GetRole", wf[w].cfg.RoleName, ~role.found, Nil, NoUser))
  /\ UNCHANGED <<nexus, outsideNexus>>

\* AddPrivilegeToRole: GetRole; the privilege is already in the role (return
\* nil, the deferred Unlock runs), or the role is to be updated or created.
AddPrivilegeToRoleGetRole(w) ==
  /\ wf[w].pc = "c.getRole"
  /\ LET role == ClientGetRole(nexus, wf[w].cfg.RoleName)
         has == role.found /\ Contains(role.Privileges, wf[w].cfg.PrivilegeName)
     IN /\ wf' = [wf EXCEPT
             ![w].pc = IF has THEN "c.getUser"
                       ELSE IF role.found THEN "c.updateRole" ELSE "c.createRole",
             ![w].role = IF role.found /\ ~has
                           THEN [role EXCEPT !.Privileges =
                                   Append(@, wf[w].cfg.PrivilegeName)]
                           ELSE role]
        /\ roleLock' = IF has THEN 0 ELSE roleLock
        /\ nexusLog' = Logged(
             LogEntry(w, "GetRole", wf[w].cfg.RoleName, ~role.found, Nil, NoUser))
  /\ UNCHANGED <<nexus, outsideNexus>>

\* AddPrivilegeToRole: UpdateRole(role) with the privilege appended; return.
AddPrivilegeToRoleUpdate(w) ==
  /\ wf[w].pc = "c.updateRole"
  /\ LET r == ClientUpdateRole(nexus, wf[w].role)
     IN /\ nexus' = r.nexus
        /\ wf' = [wf EXCEPT ![w] = IF r.err # Nil THEN WfReturn(w, r.err, r.nexus)
                                   ELSE [wf[w] EXCEPT !.pc = "c.getUser"]]
        /\ nexusLog' = Logged(
             LogEntry(w, "UpdateRole", wf[w].role.ID, r.err = ErrHTTPNotFound,
                      r.err, NoUser))
  /\ roleLock' = 0
  /\ UNCHANGED outsideNexus

\* AddPrivilegeToRole: CreateRole(opConfig) with the one privilege; return.
AddPrivilegeToRoleCreate(w) ==
  /\ wf[w].pc = "c.createRole"
  /\ LET r == ClientCreateRole(nexus, wf[w].cfg)
     IN /\ nexus' = r.nexus
        /\ wf' = [wf EXCEPT ![w] = IF r.err # Nil THEN WfReturn(w, r.err, r.nexus)
                                   ELSE [wf[w] EXCEPT !.pc = "c.getUser"]]
        /\ nexusLog' = Logged(
             LogEntry(w, "CreateRole", wf[w].cfg.RoleName, FALSE, r.err, NoUser))
  /\ roleLock' = 0
  /\ UNCHANGED outsideNexus

\* Mutant of AppendIfMissing: the role is appended whether present or not.
AppendAlways(roles, r) == Append(roles, r)

\* `if !slices.Contains(currentRoles, r) { currentRoles = append(...) }`
AppendIfMissing(roles, r) == IF Contains(roles, r) THEN roles ELSE Append(roles, r)

\* The loops of AddRoleToUser over ExtraRoles and BaseRoles: every non-empty
\* role of list that is missing is appended.
RECURSIVE AppendAllMissing(_, _, _)
AppendAllMissing(roles, list, i) ==
  IF i > Len(list) THEN roles
  ELSE AppendAllMissing(IF list[i] # "" THEN AppendIfMissing(roles, list[i])
                        ELSE roles,
                        list, i + 1)

\* Mutant of RolesAfterAdd: only the target role is added, the extra and the
\* base roles are left out.
RolesAfterAddTargetOnly(currentRoles, cfg) ==
  AppendIfMissing(currentRoles, cfg.RoleName)

\* The roles AddRoleToUser gives a user who has currentRoles.
RolesAfterAdd(currentRoles, cfg) ==
  AppendAllMissing(
    AppendAllMissing(AppendIfMissing(currentRoles, cfg.RoleName),
                     cfg.ExtraRoles, 1),
    cfg.BaseRoles, 1)

\* NexusCreator.AddRoleToUser: GetUser; fails if the user is absent.
AddRoleToUserGetUser(w) ==
  /\ wf[w].pc = "c.getUser"
  /\ LET user == ClientGetUser(nexus, wf[w].cfg.LdapUsername)
         err == IF user.found THEN Nil ELSE ErrUserNotFound(wf[w].cfg.LdapUsername)
     IN /\ wf' = [wf EXCEPT ![w] =
             IF user.found
               THEN [wf[w] EXCEPT !.pc = "c.updateUser",
                       !.user = [user EXCEPT !.Roles = RolesAfterAdd(@, wf[w].cfg)]]
               ELSE WfReturn(w, err, nexus)]
        /\ nexusLog' = Logged(
             LogEntry(w, "GetUser", wf[w].cfg.LdapUsername, ~user.found, err,
                      NoUser))
  /\ UNCHANGED <<nexus, roleLock, outsideNexus>>

\* NexusCreator.AddRoleToUser: UpdateUser(user); CreationManager.Run returns.
AddRoleToUserUpdate(w) ==
  /\ wf[w].pc = "c.updateUser"
  /\ LET r == ClientUpdateUser(nexus, wf[w].user)
     IN /\ nexus' = r.nexus
        /\ wf' = [wf EXCEPT ![w] = WfReturn(w, r.err, r.nexus)]
        /\ nexusLog' = Logged(
             LogEntry(w, "UpdateUser", wf[w].user.UserID,
                      r.err = ErrHTTPNotFound, r.err, SentUser(wf[w].user)))
  /\ UNCHANGED <<roleLock, outsideNexus>>

\* One worker runs the creation workflow for its request up to MaxRuns
\* times, one run after the other.
CreationNext ==
  \/ \E nx \in CreationStates : NexusSetup(nx)
  \/ \E cfg \in CreationConfigs : CreationRun(1, cfg)
  \/ CreationRerun(1)
  \/ CreateRepositoryLookup(1)
  \/ CreateRepositoryCreate(1)
  \/ CreatePrivilegeLookup(1)
  \/ CreatePrivilegeCreate(1)
  \/ AddPrivilegeToRoleLock(1)
  \/ AddPrivilegeToRoleGetRole(1)
  \/ AddPrivilegeToRoleUpdate(1)
  \/ AddPrivilegeToRoleCreate(1)
  \/ AddRoleToUserGetUser(1)
  \/ AddRoleToUserUpdate(1)

CreationSpec == Init /\ [][CreationNext]_vars

\* ------------------------------------------------------- deletion workflow
\* nexusClient.DeleteRepository / DeletePrivilege: a 404 from DoReq is
\* turned into nil.
ClientDeleteRepository(nx, name) ==
  IF nx.fault = "DeleteRepository"
    THEN [nexus |-> Answered(nx), err |-> ErrHTTPServer, notFound |-> FALSE]
    ELSE [nexus |-> [nx EXCEPT !.repos = @ \ {name}], err |-> Nil,
          notFound |-> name \notin nx.repos]

ClientDeletePrivilege(nx, name) ==
  IF nx.fault = "DeletePrivilege"
    THEN [nexus |-> Answered(nx), err |-> ErrHTTPServer, notFound |-> FALSE]
    ELSE [nexus |-> [nx EXCEPT !.privs = @ \ {name}], err |-> Nil,
          notFound |-> name \notin nx.privs]

\* nexusClient.DeleteRole: `if err != nil { return err }` returns the
\* HTTPError of a 404 as it is.
ClientDeleteRole(nx, name) ==
  IF nx.fault = "DeleteRole"
    THEN [nexus |-> Answered(nx), err |-> ErrHTTPServer, notFound |-> FALSE]
  ELSE IF name \in DOMAIN nx.roles
    THEN [nexus |-> [nx EXCEPT !.roles = [n \in DOMAIN @ \ {name} |-> @[n]]],
          err |-> Nil, notFound |-> FALSE]
    ELSE [nexus |-> nx, err |-> ErrHTTPNotFound, notFound |-> TRUE]

\* The names of a listing (GetRepositories, GetPrivileges), in the order of
\* the answer.
RECURSIVE Listing(_)
Listing(S) ==
  IF S = {} THEN <<>>
  ELSE LET n == CHOOSE x \in S : TRUE IN <<n>> \o Listing(S \ {n})

\* Mutant of HasSuffix: every name is taken to match.
HasSuffixAny(name, suffix) == TRUE

\* strings.HasSuffix
HasSuffix(name, suffix) ==
  /\ Len(name) >= Len(suffix)
  /\ SubSeq(name, Len(name) - Len(suffix) + 1, Len(name)) = suffix

\* suffix := fmt.Sprintf("-release-%s", dm.opConfig.AppID)
OffboardingSuffix(cfg) == "-release-" \o cfg.AppID

\* The names of a listing the offboarding loop deletes.
Matching(list, cfg) ==
  SelectSeq(list, LAMBDA n : HasSuffix(n, OffboardingSuffix(cfg)))

\* NewRoleDecisionEngine: the roles without the empty ones.
FilterEmpty(roles) == SelectSeq(roles, LAMBDA r : r # "")

\* Mutant of HasOtherRoles: an extra role counts as another role.
HasOtherRolesCountingExtra(baseRoles, extraRoles, afterRemoval) ==
  \E i \in DOMAIN afterRemoval :
    /\ ~Contains(baseRoles, afterRemoval[i])
    /\ afterRemoval[i] # SharedRoleName

\* RoleDecisionEngine.HasOtherRoles
HasOtherRoles(baseRoles, extraRoles, afterRemoval) ==
  \E i \in DOMAIN afterRemoval :
    /\ ~Contains(baseRoles, afterRemoval[i])
    /\ afterRemoval[i] # SharedRoleName
    /\ ~Contains(extraRoles, afterRemoval[i])

\* Mutant of decideLoop: a role already in final is appended again.
RECURSIVE decideLoopNoSet(_, _, _, _, _)
decideLoopNoSet(list, i, final, extraRoles, keepExtra) ==
  IF i > Len(list) THEN final
  ELSE decideLoopNoSet(list, i + 1,
         IF Contains(extraRoles, list[i]) /\ ~keepExtra THEN final
         ELSE Append(final, list[i]),
         extraRoles, keepExtra)

\* The two loops of DecideFinalRoles: every role of list not yet in final is
\* appended, an extra role only if keepExtra.
RECURSIVE decideLoop(_, _, _, _, _)
decideLoop(list, i, final, extraRoles, keepExtra) ==
  IF i > Len(list) THEN final
  ELSE decideLoop(list, i + 1,
         IF Contains(final, list[i]) THEN final
         ELSE IF Contains(extraRoles, list[i]) /\ ~keepExtra THEN final
         ELSE Append(final, list[i]),
         extraRoles, keepExtra)

\* Mutant of DecideFinalRoles: the extra roles are never kept.
DecideFinalRolesDropExtra(baseRoles, extraRoles, afterRemoval) ==
  LET base == FilterEmpty(baseRoles)
      extra == FilterEmpty(extraRoles)
  IN decideLoop(afterRemoval, 1, decideLoop(base, 1, <<>>, <<>>, TRUE),
                extra, FALSE)

\* Mutant of DecideFinalRoles: afterRemoval is gone through from its end.
DecideFinalRolesBackwards(baseRoles, extraRoles, afterRemoval) ==
  LET base == FilterEmpty(baseRoles)
      extra == FilterEmpty(extraRoles)
      keepExtra == HasOtherRoles(base, extra, afterRemoval)
      backwards == [i \in 1..Len(afterRemoval) |->
                      afterRemoval[Len(afterRemoval) + 1 - i]]
  IN decideLoop(backwards, 1, decideLoop(base, 1, <<>>, <<>>, TRUE),
                extra, keepExtra)

\* RoleDecisionEngine.DecideFinalRoles
DecideFinalRoles(baseRoles, extraRoles, afterRemoval) ==
  LET base == FilterEmpty(baseRoles)
      extra == FilterEmpty(extraRoles)
      keepExtra == HasOtherRoles(base, extra, afterRemoval)
  IN decideLoop(afterRemoval, 1, decideLoop(base, 1, <<>>, <<>>, TRUE),
                extra, keepExtra)

\* The repository manager before the deletion workflows run: with every call
\* answered, or with one delete of a repository or of a privilege about to
\* fail once.
DeletionStates ==
  {[repos |-> r, privs |-> p, roles |-> ro, users |-> u, fault |-> "",
   iqRoles |-> IQRoles, owners |-> {}] :
     r \in {{}, {"npm-release-app-9"},
            {"npm-release-app-9", "maven-release-app-9", "npm-release-app-99"}},
     p \in {{}, {"npm-release-app-9", "maven-release-app-9",
                 "npm-release-app-99"}},
     ro \in {<<>>, [n \in {"user1"} |-> <<>>],
             [n \in {"user1"} |-> <<"npm-release-app-9">>]},
     u \in {<<>>,
            [n \in {"user1"} |->
               NexusUser("active", <<"base-role", "extra-role", "user1">>)],
            [n \in {"user1"} |->
               NexusUser("active", <<"user1", "other-role", "extra-role">>)]}}
  \cup
  {[repos |-> {"npm-release-app-9", "maven-release-app-9", "npm-release-app-99"},
    privs |-> {"npm-release-app-9", "maven-release-app-9", "npm-release-app-99"},
    roles |-> [n \in {"user1"} |-> <<"npm-release-app-9">>],
    users |-> [n \in {"user1"} |->
                 NexusUser("active", <<"base-role", "extra-role", "user1">>)],
    fault |-> f,
    iqRoles |-> IQRoles, owners |-> {}] : f \in {"DeleteRepository", "DeletePrivilege"}}

\* A delete request of user1, resolved by CreateOpConfig.
DeleteConfig(shared) ==
  CreateOpConfig([OrganizationName |-> "org1", LdapUsername |-> "user1",
                  PackageManager |-> "npm", Shared |-> shared,
                  AppID |-> IF shared THEN "" ELSE "app-9"], MethodDelete).cfg

\* The operation configs the deletion workflows run with: a standard
\* delete, a delete of the shared role, and the offboarding config of
\* TestDeletionManager_Run_OffboardingMode (Shared and AppID both set).
DeletionConfigs ==
  {DeleteConfig(FALSE), DeleteConfig(TRUE),
   [DeleteConfig(FALSE) EXCEPT !.Shared = TRUE, !.AppID = "app-9"]}

\* Mutant of DeletionRun: outside offboarding the full cleanup is run
\* whatever the role.
DeletionRunFullCleanup(w, cfg) ==
  /\ wf[w].pc = "idle"
  /\ wf' = [wf EXCEPT ![w] =
       [WfIdle EXCEPT !.kind = "delete", !.cfg = cfg, !.start = nexus,
          !.pc = IF DeletionMode(cfg) = "offboarding" THEN "o.getUser"
                 ELSE "d.delRepo"]]
  /\ UNCHANGED <<nexus, roleLock, nexusLog, outsideNexus>>

\* service.NewDeletionManager(opConfig, bm.nexus).Run() is called: the
\* branch is chosen from the config.
DeletionRun(w, cfg) ==
  /\ wf[w].pc = "idle"
  /\ wf' = [wf EXCEPT ![w] =
       [WfIdle EXCEPT !.kind = "delete", !.cfg = cfg, !.start = nexus,
          !.pc = CASE DeletionMode(cfg) = "offboarding" -> "o.getUser"
                   [] DeletionMode(cfg) = "shared-role" -> "d.getUser"
                   [] OTHER -> "d.delRepo"]]
  /\ UNCHANGED <<nexus, roleLock, nexusLog, outsideNexus>>

\* NexusCleaner.DeleteRepository
DeleteRepository(w) ==
  /\ wf[w].pc = "d.delRepo"
  /\ LET r == ClientDeleteRepository(nexus, wf[w].cfg.RepositoryName)
     IN /\ nexus' = r.nexus
        /\ wf' = [wf EXCEPT ![w] = IF r.err # Nil THEN WfReturn(w, r.err, r.nexus)
                                   ELSE [wf[w] EXCEPT !.pc = "d.delPriv"]]
        /\ nexusLog' = Logged(
             LogEntry(w, "DeleteRepository", wf[w].cfg.RepositoryName,
                      r.notFound, r.err, NoUser))
  /\ UNCHANGED <<roleLock, outsideNexus>>

\* NexusCleaner.DeletePrivilege
DeletePrivilege(w) ==
  /\ wf[w].pc = "d.delPriv"
  /\ LET r == ClientDeletePrivilege(nexus, wf[w].cfg.PrivilegeName)
     IN /\ nexus' = r.nexus
        /\ wf' = [wf EXCEPT ![w] = IF r.err # Nil THEN WfReturn(w, r.err, r.nexus)
                                   ELSE [wf[w] EXCEPT !.pc = "d.getRole"]]
        /\ nexusLog' = Logged(
             LogEntry(w, "DeletePrivilege", wf[w].cfg.PrivilegeName,
                      r.notFound, r.err, NoUser))
  /\ UNCHANGED <<roleLock, outsideNexus>>

\* NexusCleaner.CleanupRole: GetRole; nothing to do for an absent role or a
\* role that has privileges.
CleanupRoleGetRole(w) ==
  /\ wf[w].pc = "d.getRole"
  /\ LET role == ClientGetRole(nexus, wf[w].cfg.RoleName)
     IN /\ wf' = [wf EXCEPT
             ![w].pc = IF role.found /\ Len(role.Privileges) = 0
                         THEN "d.delRole" ELSE "d.getUser",
             ![w].role = role]
        /\ nexusLog' = Logged(
             LogEntry(w, "GetRole", wf[w].cfg.RoleName, ~role.found, Nil, NoUser))
  /\ UNCHANGED <<nexus, roleLock, outsideNexus>>

\* NexusCleaner.CleanupRole: DeleteRole of the empty role; any error of it,
\* the 404 included, is returned ("delete empty role failed").
CleanupRoleDelete(w) ==
  /\ wf[w].pc = "d.delRole"
  /\ LET r == ClientDeleteRole(nexus, wf[w].cfg.RoleName)
     IN /\ nexus' = r.nexus
        /\ wf' = [wf EXCEPT ![w] = IF r.err # Nil THEN WfReturn(w, r.err, r.nexus)
                                   ELSE [wf[w] EXCEPT !.pc = "d.getUser"]]
        /\ nexusLog' = Logged(
             LogEntry(w, "DeleteRole", wf[w].cfg.RoleName, r.notFound, r.err,
                      NoUser))
  /\ UNCHANGED <<roleLock, outsideNexus>>

\* NexusCleaner.CleanupUserRoles: GetUser; an absent user is skipped.
CleanupUserRolesGetUser(w) ==
  /\ wf[w].pc = "d.getUser"
  /\ LET user == ClientGetUser(nexus, wf[w].cfg.LdapUsername)
     IN /\ wf' = [wf EXCEPT ![w] =
             IF ~user.found THEN WfReturn(w, Nil, nexus)
             ELSE IF wf[w].cfg.RoleName # ""
               THEN [wf[w] EXCEPT !.pc = "d.getRole2", !.user = user]
             ELSE [wf[w] EXCEPT !.pc = "d.updateUser",
                     !.user = [user EXCEPT !.Roles =
                       DecideFinalRoles(wf[w].cfg.BaseRoles,
                                        wf[w].cfg.ExtraRoles, @)]]]
        /\ nexusLog' = Logged(
             LogEntry(w, "GetUser", wf[w].cfg.LdapUsername, ~user.found, Nil,
                      NoUser))
  /\ UNCHANGED <<nexus, roleLock, outsideNexus>>

\* Mutant of CleanupUserRolesGetRole: the role is taken off the user whatever
\* it contains.
CleanupUserRolesAlwaysRemove(w) ==
  /\ wf[w].pc = "d.getRole2"
  /\ LET roleInfo == ClientGetRole(nexus, wf[w].cfg.RoleName)
         canRemove == TRUE
         roles == IF canRemove THEN RemoveFirst(wf[w].user.Roles, wf[w].cfg.RoleName)
                  ELSE wf[w].user.Roles
     IN /\ wf' = [wf EXCEPT ![w].pc = "d.updateUser",
                            ![w].user.Roles =
                              DecideFinalRoles(wf[w].cfg.BaseRoles,
                                               wf[w].cfg.ExtraRoles, roles)]
        /\ nexusLog' = Logged(
             LogEntry(w, "GetRole", wf[w].cfg.RoleName, ~roleInfo.found, Nil,
                      NoUser))
  /\ UNCHANGED <<nexus, roleLock, outsideNexus>>

\* NexusCleaner.CleanupUserRoles: GetRole; the role is taken off the user
\* when it is absent or has no privileges; the final roles are decided.
CleanupUserRolesGetRole(w) ==
  /\ wf[w].pc = "d.getRole2"
  /\ LET roleInfo == ClientGetRole(nexus, wf[w].cfg.RoleName)
         canRemove == ~(roleInfo.found /\ Len(roleInfo.Privileges) > 0)
         roles == IF canRemove THEN RemoveFirst(wf[w].user.Roles, wf[w].cfg.RoleName)
                  ELSE wf[w].user.Roles
     IN /\ wf' = [wf EXCEPT ![w].pc = "d.updateUser",
                            ![w].user.Roles =
                              DecideFinalRoles(wf[w].cfg.BaseRoles,
                                               wf[w].cfg.ExtraRoles, roles)]
        /\ nexusLog' = Logged(
             LogEntry(w, "GetRole", wf[w].cfg.RoleName, ~roleInfo.found, Nil,
                      NoUser))
  /\ UNCHANGED <<nexus, roleLock, outsideNexus>>

\* NexusCleaner.CleanupUserRoles: UpdateUser; DeletionManager.Run returns.
CleanupUserRolesUpdate(w) ==
  /\ wf[w].pc = "d.updateUser"
  /\ LET r == ClientUpdateUser(nexus, wf[w].user)
     IN /\ nexus' = r.nexus
        /\ wf' = [wf EXCEPT ![w] = WfReturn(w, r.err, r.nexus)]
        /\ nexusLog' = Logged(
             LogEntry(w, "UpdateUser", wf[w].user.UserID,
                      r.err = ErrHTTPNotFound, r.err, SentUser(wf[w].user)))
  /\ UNCHANGED <<roleLock, outsideNexus>>

\* NexusCleaner.DisableUserAndResetRoles: GetUser; fails if the user is
\* absent; the roles become BaseRoles and the status "disabled".
DisableUserGetUser(w) ==
  /\ wf[w].pc = "o.getUser"
  /\ LET user == ClientGetUser(nexus, wf[w].cfg.LdapUsername)
         err == IF user.found THEN Nil ELSE ErrUserNotFound(wf[w].cfg.LdapUsername)
     IN /\ wf' = [wf EXCEPT ![w] =
             IF user.found
               THEN [wf[w] EXCEPT !.pc = "o.updateUser",
                       !.user = [user EXCEPT !.Roles = wf[w].cfg.BaseRoles,
                                             !.Status = "disabled"]]
               ELSE WfReturn(w, err, nexus)]
        /\ nexusLog' = Logged(
             LogEntry(w, "GetUser", wf[w].cfg.LdapUsername, ~user.found, err,
                      NoUser))
  /\ UNCHANGED <<nexus, roleLock, outsideNexus>>

\* NexusCleaner.DisableUserAndResetRoles: UpdateUser.
DisableUserUpdate(w) ==
  /\ wf[w].pc = "o.updateUser"
  /\ LET r == ClientUpdateUser(nexus, wf[w].user)
     IN /\ nexus' = r.nexus
        /\ wf' = [wf EXCEPT ![w] = IF r.err # Nil THEN WfReturn(w, r.err, r.nexus)
                                   ELSE [wf[w] EXCEPT !.pc = "o.forceDelRole"]]
        /\ nexusLog' = Logged(
             LogEntry(w, "UpdateUser", wf[w].user.UserID,
                      r.err = ErrHTTPNotFound, r.err, SentUser(wf[w].user)))
  /\ UNCHANGED <<roleLock, outsideNexus>>

\* NexusCleaner.ForceDeleteRole(LdapUsername): a 404 is success; Run logs
\* any other error and goes on.
ForceDeleteRole(w) ==
  /\ wf[w].pc = "o.forceDelRole"
  /\ LET r == ClientDeleteRole(nexus, wf[w].cfg.LdapUsername)
         err == IF r.err = ErrHTTPNotFound THEN Nil ELSE r.err
     IN /\ nexus' = r.nexus
        /\ wf' = [wf EXCEPT ![w].pc = "o.listRepos"]
        /\ nexusLog' = Logged(
             LogEntry(w, "DeleteRole", wf[w].cfg.LdapUsername, r.notFound, err,
                      NoUser))
  /\ UNCHANGED <<roleLock, outsideNexus>>

\* DeletionManager.Run, offboarding: GetRepositories and the filter of the
\* loop.
OffboardingListRepositories(w) ==
  /\ wf[w].pc = "o.listRepos"
  /\ LET allRepos == Listing(nexus.repos)
     IN wf' = [wf EXCEPT ![w].pc = "o.delRepos",
                         ![w].listed.repos = allRepos,
                         ![w].todo = Matching(allRepos, wf[w].cfg)]
  /\ UNCHANGED <<nexus, roleLock, nexusLog, outsideNexus>>

\* Mutant of OffboardingDeleteRepository: the error of the delete is
\* returned by Run.
OffboardingDeleteRepositoryOrReturn(w) ==
  /\ wf[w].pc = "o.delRepos"
  /\ wf[w].todo # <<>>
  /\ LET r == ClientDeleteRepository(nexus, Head(wf[w].todo))
     IN /\ nexus' = r.nexus
        /\ nexusLog' = Logged(
             LogEntry(w, "DeleteRepository", Head(wf[w].todo), r.notFound,
                      r.err, NoUser))
        /\ wf' = [wf EXCEPT ![w] = IF r.err # Nil THEN WfReturn(w, r.err, r.nexus)
                                   ELSE [wf[w] EXCEPT !.todo = Tail(@)]]
  /\ UNCHANGED <<roleLock, outsideNexus>>

\* One round of the loop: DeleteRepositoryByName(repo.Name), its error is
\* logged and the loop goes on.
OffboardingDeleteRepository(w) ==
  /\ wf[w].pc = "o.delRepos"
  /\ wf[w].todo # <<>>
  /\ LET r == ClientDeleteRepository(nexus, Head(wf[w].todo))
     IN /\ nexus' = r.nexus
        /\ nexusLog' = Logged(
             LogEntry(w, "DeleteRepository", Head(wf[w].todo), r.notFound,
                      r.err, NoUser))
  /\ wf' = [wf EXCEPT ![w].todo = Tail(@)]
  /\ UNCHANGED <<roleLock, outsideNexus>>

\* The loop over the repositories is over: GetPrivileges and the filter.
OffboardingListPrivileges(w) ==
  /\ wf[w].pc = "o.delRepos"
  /\ wf[w].todo = <<>>
  /\ LET allPrivs == Listing(nexus.privs)
     IN wf' = [wf EXCEPT ![w].pc = "o.delPrivs",
                         ![w].listed.privs = allPrivs,
                         ![w].todo = Matching(allPrivs, wf[w].cfg)]
  /\ UNCHANGED <<nexus, roleLock, nexusLog, outsideNexus>>

\* One round of the loop: DeletePrivilegeByName(priv.Name).
OffboardingDeletePrivilege(w) ==
  /\ wf[w].pc = "o.delPrivs"
  /\ wf[w].todo # <<>>
  /\ LET r == ClientDeletePrivilege(nexus, Head(wf[w].todo))
     IN /\ nexus' = r.nexus
        /\ nexusLog' = Logged(
             LogEntry(w, "DeletePrivilege", Head(wf[w].todo), r.notFound,
                      r.err, NoUser))
  /\ wf' = [wf EXCEPT ![w].todo = Tail(@)]
  /\ UNCHANGED <<roleLock, outsideNexus>>

\* The loop over the privileges is over: Run returns the offboarding result.
OffboardingReturn(w) ==
  /\ wf[w].pc = "o.delPrivs"
  /\ wf[w].todo = <<>>
  /\ wf' = [wf EXCEPT ![w] = WfReturn(w, Nil, nexus)]
  /\ UNCHANGED <<nexus, roleLock, nexusLog, outsideNexus>>

\* The workers of a batch run the deletion workflows of their requests
\* side by side.
DeletionNext ==
  \/ \E nx \in DeletionStates : NexusSetup(nx)
  \/ \E w \in Workers, cfg \in DeletionConfigs : DeletionRun(w, cfg)
  \/ \E w \in Workers : DeleteRepository(w)
  \/ \E w \in Workers : DeletePrivilege(w)
  \/ \E w \in Workers : CleanupRoleGetRole(w)
  \/ \E w \in Workers : CleanupRoleDelete(w)
  \/ \E w \in Workers : CleanupUserRolesGetUser(w)
  \/ \E w \in Workers : CleanupUserRolesGetRole(w)
  \/ \E w \in Workers : CleanupUserRolesUpdate(w)
  \/ \E w \in Workers : DisableUserGetUser(w)
  \/ \E w \in Workers : DisableUserUpdate(w)
  \/ \E w \in Workers : ForceDeleteRole(w)
  \/ \E w \in Workers : OffboardingListRepositories(w)
  \/ \E w \in Workers : OffboardingDeleteRepository(w)
  \/ \E w \in Workers : OffboardingListPrivileges(w)
  \/ \E w \in Workers : OffboardingDeletePrivilege(w)
  \/ \E w \in Workers : OffboardingReturn(w)

DeletionSpec == Init /\ [][DeletionNext]_vars

\* ------------------------------------------------ one request, start to end
\* The error of the manager's Run that worker w waits on.
RunError(w) == wf[w].errs[Len(wf[w].errs)]

\* attemptOperation returns result for the request of worker w.
Reported(w, result) == [wf[w] EXCEPT !.pc = "reported", !.result = result]

\* iqServerClient.FindOwnerRoleID: the id of the first role named "Owner"
\* ("" and no error when there is none, an error when its id is empty).
ErrOwnerIDMissing == "find owner role: 'Owner' role exists but id is missing"
ErrOwnerRoleNotFound == "owner role id not found"

RECURSIVE findOwnerLoop(_, _)
findOwnerLoop(roles, i) ==
  IF i > Len(roles) THEN [id |-> "", err |-> Nil]
  ELSE IF roles[i].Name = "Owner"
    THEN IF roles[i].ID # "" THEN [id |-> roles[i].ID, err |-> Nil]
         ELSE [id |-> "", err |-> ErrOwnerIDMissing]
  ELSE findOwnerLoop(roles, i + 1)

FindOwnerRoleID(nx) == findOwnerLoop(nx.iqRoles, 1)

\* The Owner membership of the user of cfg in the organization of cfg.
Membership(cfg) == [org |-> cfg.OrganizationID, user |-> cfg.LdapUsername]

\* iqServerClient.AddOwnerRoleToUser: PUT of the membership.
ClientAddOwnerRoleToUser(nx, cfg) ==
  LET role == FindOwnerRoleID(nx)
  IN IF role.err # Nil THEN [nexus |-> nx, err |-> role.err]
     ELSE IF role.id = "" THEN [nexus |-> nx, err |-> ErrOwnerRoleNotFound]
     ELSE IF nx.fault = "AddOwnerRoleToUser"
       THEN [nexus |-> Answered(nx), err |-> ErrHTTPServer]
     ELSE [nexus |-> [nx EXCEPT !.owners = @ \cup {Membership(cfg)}], err |-> Nil]

\* Mutant of ClientRemoveOwnerRoleFromUser: the 404 of the DELETE is
\* returned as an error.
ClientRemoveOwnerRoleStrict(nx, cfg) ==
  LET role == FindOwnerRoleID(nx)
  IN IF role.err # Nil THEN [nexus |-> nx, err |-> role.err]
     ELSE IF role.id = "" THEN [nexus |-> nx, err |-> ErrOwnerRoleNotFound]
     ELSE IF nx.fault = "RemoveOwnerRoleFromUser"
       THEN [nexus |-> Answered(nx), err |-> ErrHTTPServer]
     ELSE IF Membership(cfg) \notin nx.owners
       THEN [nexus |-> nx, err |-> ErrHTTPNotFound]
     ELSE [nexus |-> [nx EXCEPT !.owners = @ \ {Membership(cfg)}], err |-> Nil]

\* iqServerClient.RemoveOwnerRoleFromUser: DELETE of the membership; the 404
\* of a membership that does not exist is nil.
ClientRemoveOwnerRoleFromUser(nx, cfg) ==
  LET role == FindOwnerRoleID(nx)
  IN IF role.err # Nil THEN [nexus |-> nx, err |-> role.err]
     ELSE IF role.id = "" THEN [nexus |-> nx, err |-> ErrOwnerRoleNotFound]
     ELSE IF nx.fault = "RemoveOwnerRoleFromUser"
       THEN [nexus |-> Answered(nx), err |-> ErrHTTPServer]
     ELSE [nexus |-> [nx EXCEPT !.owners = @ \ {Membership(cfg)}], err |-> Nil]

\* attemptOperation: `if _, opErr = repoManager.Run(); opErr != nil { break }`
\* and the centralized error handling: the request failed.
AttemptFailed(w) ==
  /\ wf[w].pc = "done"
  /\ RunError(w) # Nil
  /\ wf' = [wf EXCEPT ![w] = Reported(w, operationResult(FALSE, RunError(w)))]
  /\ UNCHANGED <<nexus, roleLock, nexusLog, outsideNexus>>

\* Mutant of AddOwnerRole: the Owner role is assigned whether or not the
\* creation workflow succeeded.
AddOwnerRoleAlways(w) ==
  /\ wf[w].pc = "done"
  /\ wf[w].kind = "create"
  /\ LET r == ClientAddOwnerRoleToUser(nexus, wf[w].cfg)
     IN /\ nexus' = r.nexus
        /\ nexusLog' = Logged(
             LogEntry(w, "AddOwnerRoleToUser", wf[w].cfg.LdapUsername,
                      FALSE, r.err, NoUser))
        /\ wf' = [wf EXCEPT ![w] = Reported(w,
             IF r.err # Nil THEN operationResult(FALSE, r.err)
             ELSE operationResult(TRUE, ""))]
  /\ UNCHANGED <<roleLock, outsideNexus>>

\* attemptOperation, MethodCreate, step 2: AddOwnerRoleToUser when the
\* organization id is not empty; its error is the error of the request.
AddOwnerRole(w) ==
  /\ wf[w].pc = "done"
  /\ wf[w].kind = "create"
  /\ RunError(w) = Nil
  /\ IF wf[w].cfg.OrganizationID # ""
       THEN LET r == ClientAddOwnerRoleToUser(nexus, wf[w].cfg)
            IN /\ nexus' = r.nexus
               /\ nexusLog' = Logged(
                    LogEntry(w, "AddOwnerRoleToUser", wf[w].cfg.LdapUsername,
                             FALSE, r.err, NoUser))
               /\ wf' = [wf EXCEPT ![w] = Reported(w,
                    IF r.err # Nil THEN operationResult(FALSE, r.err)
                    ELSE operationResult(TRUE, ""))]
       ELSE /\ wf' = [wf EXCEPT ![w] = Reported(w, operationResult(TRUE, ""))]
            /\ UNCHANGED <<nexus, nexusLog>>
  /\ UNCHANGED <<roleLock, outsideNexus>>

\* shouldRemoveOwnerRole: the roles of the user without the first occurrence
\* of the target role, whether or not the role was taken off the user.
WithoutTargetRole(roles, cfg) ==
  IF cfg.RoleName # "" THEN RemoveFirst(roles, cfg.RoleName) ELSE roles

\* Mutant of ShouldRemove: the remaining roles are not compared with the
\* base roles.
ShouldRemoveWithoutBaseCheck(cfg, roles, shareRoleEmpty) ==
  /\ ~HasOtherRoles(FilterEmpty(cfg.BaseRoles), FilterEmpty(cfg.ExtraRoles), roles)
  /\ shareRoleEmpty

\* Mutant of ShouldRemove: Owner is never removed.
ShouldRemoveNever(cfg, roles, shareRoleEmpty) == FALSE

\* shouldRemoveOwnerRole: the decision for the roles (target role taken off).
ShouldRemove(cfg, roles, shareRoleEmpty) ==
  LET hasOtherRoles == HasOtherRoles(FilterEmpty(cfg.BaseRoles),
                                     FilterEmpty(cfg.ExtraRoles), roles)
      onlyBaseRole == /\ Len(cfg.BaseRoles) > 0
                      /\ Len(roles) > 0
                      /\ \A i \in DOMAIN roles : Contains(cfg.BaseRoles, roles[i])
  IN ~hasOtherRoles /\ shareRoleEmpty /\ onlyBaseRole

\* Mutant of OwnerCleanupGetUser: the organization-role cleanup runs whether
\* or not the deletion in the repository manager succeeded.
OwnerCleanupAlways(w) ==
  /\ wf[w].pc = "done"
  /\ wf[w].kind = "delete"
  /\ IF wf[w].cfg.OrganizationID = ""
       THEN /\ wf' = [wf EXCEPT ![w] = Reported(w, operationResult(TRUE, ""))]
            /\ UNCHANGED nexusLog
       ELSE LET user == ClientGetUser(nexus, wf[w].cfg.LdapUsername)
                roles == WithoutTargetRole(user.Roles, wf[w].cfg)
            IN /\ nexusLog' = Logged(
                    LogEntry(w, "GetUser", wf[w].cfg.LdapUsername, ~user.found,
                             Nil, NoUser))
               /\ wf' = [wf EXCEPT ![w] =
                    IF ~user.found
                      THEN Reported(w, operationResult(TRUE, ""))
                    ELSE IF Contains(roles, SharedRoleName)
                      THEN [wf[w] EXCEPT !.pc = "q.getShare",
                                         !.user = [user EXCEPT !.Roles = roles]]
                    ELSE IF ShouldRemove(wf[w].cfg, roles, TRUE)
                      THEN [wf[w] EXCEPT !.pc = "q.remove",
                                         !.user = [user EXCEPT !.Roles = roles]]
                    ELSE Reported(w, operationResult(TRUE, ""))]
  /\ UNCHANGED <<nexus, roleLock, outsideNexus>>

\* attemptOperation, MethodDelete, step 2: IQDeletionManager.Run.
\* CleanupUserFromOrganization returns nil for an empty organization id;
\* shouldRemoveOwnerRole reads the user (no removal for an absent user) and,
\* if the user has the shared role, goes on to read it.
OwnerCleanupGetUser(w) ==
  /\ wf[w].pc = "done"
  /\ wf[w].kind = "delete"
  /\ RunError(w) = Nil
  /\ IF wf[w].cfg.OrganizationID = ""
       THEN /\ wf' = [wf EXCEPT ![w] = Reported(w, operationResult(TRUE, ""))]
            /\ UNCHANGED nexusLog
       ELSE LET user == ClientGetUser(nexus, wf[w].cfg.LdapUsername)
                roles == WithoutTargetRole(user.Roles, wf[w].cfg)
            IN /\ nexusLog' = Logged(
                    LogEntry(w, "GetUser", wf[w].cfg.LdapUsername, ~user.found,
                             Nil, NoUser))
               /\ wf' = [wf EXCEPT ![w] =
                    IF ~user.found
                      THEN Reported(w, operationResult(TRUE, ""))
                    ELSE IF Contains(roles, SharedRoleName)
                      THEN [wf[w] EXCEPT !.pc = "q.getShare",
                                         !.user = [user EXCEPT !.Roles = roles]]
                    ELSE IF ShouldRemove(wf[w].cfg, roles, TRUE)
                      THEN [wf[w] EXCEPT !.pc = "q.remove",
                                         !.user = [user EXCEPT !.Roles = roles]]
                    ELSE Reported(w, operationResult(TRUE, ""))]
  /\ UNCHANGED <<nexus, roleLock, outsideNexus>>

\* shouldRemoveOwnerRole: GetRole("repositories.share"); the decision.
OwnerCleanupGetShareRole(w) ==
  /\ wf[w].pc = "q.getShare"
  /\ LET shareRole == ClientGetRole(nexus, SharedRoleName)
         shareRoleEmpty == ~(shareRole.found /\ Len(shareRole.Privileges) > 0)
     IN /\ nexusLog' = Logged(
             LogEntry(w, "GetRole", SharedRoleName, ~shareRole.found, Nil, NoUser))
        /\ wf' = [wf EXCEPT ![w] =
             IF ShouldRemove(wf[w].cfg, wf[w].user.Roles, shareRoleEmpty)
               THEN [wf[w] EXCEPT !.pc = "q.remove"]
               ELSE Reported(w, operationResult(TRUE, ""))]
  /\ UNCHANGED <<nexus, roleLock, outsideNexus>>

\* CleanupUserFromOrganization: RemoveOwnerRoleFromUser; its error is the
\* error of the request.
RemoveOwnerRole(w) ==
  /\ wf[w].pc = "q.remove"
  /\ LET r == ClientRemoveOwnerRoleFromUser(nexus, wf[w].cfg)
     IN /\ nexus' = r.nexus
        /\ nexusLog' = Logged(
             LogEntry(w, "RemoveOwnerRoleFromUser", wf[w].cfg.LdapUsername,
                      FALSE, r.err, NoUser))
        /\ wf' = [wf EXCEPT ![w] = Reported(w,
             IF r.err # Nil THEN operationResult(FALSE, r.err)
             ELSE operationResult(TRUE, ""))]
  /\ UNCHANGED <<roleLock, outsideNexus>>

\* A request of user1 in org1 for the app, resolved by CreateOpConfig.
RequestConfig(action, shared, appID) ==
  CreateOpConfig([OrganizationName |-> "org1", LdapUsername |-> "user1",
                  PackageManager |-> "npm", Shared |-> shared,
                  AppID |-> IF shared THEN "" ELSE appID], action).cfg

\* The requests of one batch, one per worker: the first worker creates or
\* deletes app-9 or the shared access of user1 (or runs the offboarding
\* config of the tests); the others create app-1 for the same user, or
\* delete it in an organization without id.
OperationConfigs(w) ==
  IF w = 1
    THEN {RequestConfig(MethodCreate, FALSE, "app-9"),
          RequestConfig(MethodCreate, TRUE, ""),
          RequestConfig(MethodDelete, FALSE, "app-9"),
          RequestConfig(MethodDelete, TRUE, ""),
          [RequestConfig(MethodDelete, FALSE, "app-9") EXCEPT
             !.Shared = TRUE, !.AppID = "app-9"]}
    ELSE {RequestConfig(MethodCreate, FALSE, "app-1"),
          [RequestConfig(MethodCreate, FALSE, "app-1") EXCEPT
             !.OrganizationID = ""],
          [RequestConfig(MethodDelete, FALSE, "app-1") EXCEPT
             !.OrganizationID = ""]}

\* The calls a server outage can hit.
FaultyCalls ==
  {"CreateProxyRepository", "CreatePrivilege", "CreateRole", "UpdateRole",
   "UpdateUser", "DeleteRepository", "DeletePrivilege", "DeleteRole",
   "AddOwnerRoleToUser", "RemoveOwnerRoleFromUser"}

\* The servers before the batch runs: with every call answered, or with one
\* call about to fail once.
OperationStates ==
  {[repos |-> r, privs |-> r, roles |-> ro, users |-> u, fault |-> "",
   iqRoles |-> IQRoles, owners |-> {}] :
     r \in {{}, {"npm-release-app-9"}},
     ro \in {<<>>, [n \in {"user1"} |-> <<>>],
             [n \in {"user1"} |-> <<"npm-release-app-1">>]},
     u \in {<<>>,
            [n \in {"user1"} |-> NexusUser("active", <<"base-role", "user1">>)],
            [n \in {"user1"} |->
               NexusUser("active", <<"other-role", "repositories.share">>)]}}
  \cup
  {[repos |-> {}, privs |-> {}, roles |-> ro, fault |-> f,
    iqRoles |-> IQRoles, owners |-> {},
    users |-> [n \in {"user1"} |-> NexusUser("active", <<"base-role", "user1">>)]] :
     ro \in {<<>>, [n \in {"user1"} |-> <<>>]}, f \in FaultyCalls}

\* The workers of a batch run their requests side by side.
OperationNext ==
  \/ \E nx \in OperationStates : NexusSetup(nx)
  \/ \E w \in Workers :
       \E cfg \in {c \in OperationConfigs(w) : c.Action = MethodCreate} :
         CreationRun(w, cfg)
  \/ \E w \in Workers :
       \E cfg \in {c \in OperationConfigs(w) : c.Action = MethodDelete} :
         DeletionRun(w, cfg)
  \/ \E w \in Workers : CreateRepositoryLookup(w)
  \/ \E w \in Workers : CreateRepositoryCreate(w)
  \/ \E w \in Workers : CreatePrivilegeLookup(w)
  \/ \E w \in Workers : CreatePrivilegeCreate(w)
  \/ \E w \in Workers : AddPrivilegeToRoleLock(w)
  \/ \E w \in Workers : AddPrivilegeToRoleGetRole(w)
  \/ \E w \in Workers : AddPrivilegeToRoleUpdate(w)
  \/ \E w \in Workers : AddPrivilegeToRoleCreate(w)
  \/ \E w \in Workers : AddRoleToUserGetUser(w)
  \/ \E w \in Workers : AddRoleToUserUpdate(w)
  \/ \E w \in Workers : DeleteRepository(w)
  \/ \E w \in Workers : DeletePrivilege(w)
  \/ \E w \in Workers : CleanupRoleGetRole(w)
  \/ \E w \in Workers : CleanupRoleDelete(w)
  \/ \E w \in Workers : CleanupUserRolesGetUser(w)
  \/ \E w \in Workers : CleanupUserRolesGetRole(w)
  \/ \E w \in Workers : CleanupUserRolesUpdate(w)
  \/ \E w \in Workers : DisableUserGetUser(w)
  \/ \E w \in Workers : DisableUserUpdate(w)
  \/ \E w \in Workers : ForceDeleteRole(w)
  \/ \E w \in Workers : OffboardingListRepositories(w)
  \/ \E w \in Workers : OffboardingDeleteRepository(w)
  \/ \E w \in Workers : OffboardingListPrivileges(w)
  \/ \E w \in Workers : OffboardingDeletePrivilege(w)
  \/ \E w \in Workers : OffboardingReturn(w)
  \/ \E w \in Workers : AttemptFailed(w)
  \/ \E w \in Workers : AddOwnerRole(w)
  \/ \E w \in Workers : OwnerCleanupGetUser(w)
  \/ \E w \in Workers : OwnerCleanupGetShareRole(w)
  \/ \E w \in Workers : RemoveOwnerRole(w)

OperationSpec == Init /\ [][OperationNext]_vars

\* ------------------------------------------- the owner decision on its own
\* The role names the users of the decision hold.
OwnerRoleNames ==
  {"base-role", "extra-role", "user1", "repositories.share", "npm-release-app-1"}

\* The servers as IQServerCleaner finds them: the user absent or with up to
\* MaxOwnerRoles roles, the shared role absent, empty or with a privilege;
\* the organization server with the Owner role, without it or with an
\* Owner role that has no id, the user an Owner of the organization or not.
OwnerStates ==
  {[repos |-> {}, privs |-> {}, roles |-> ro, users |-> u, fault |-> "",
   iqRoles |-> iq, owners |-> ow] :
     iq \in {IQRoles, <<[Name |-> "Developer", ID |-> "dev-role-id"]>>,
             <<[Name |-> "Owner", ID |-> ""]>>},
     ow \in {{}, {[org |-> "org-id-1", user |-> "user1"]}},
     ro \in {<<>>, [n \in {"repositories.share"} |-> <<>>],
             [n \in {"repositories.share"} |-> <<"npm-release-app-1">>]},
     u \in {<<>>} \cup
           {[n \in {"user1"} |-> NexusUser("active", r)] :
              r \in SeqsUpTo(OwnerRoleNames, MaxOwnerRoles)}}

\* The configs the cleaner is built with: a standard and a shared delete,
\* one with the shared role configured as a base role, one without
\* organization id.
OwnerConfigs ==
  {RequestConfig(MethodDelete, FALSE, "app-9"),
   RequestConfig(MethodDelete, TRUE, ""),
   [RequestConfig(MethodDelete, FALSE, "app-9") EXCEPT
      !.BaseRoles = <<"base-role", "repositories.share">>],
   [RequestConfig(MethodDelete, FALSE, "app-9") EXCEPT !.OrganizationID = ""]}

\* NewIQDeletionManager(opConfig, iq, nexus).Run() is called after the
\* deletion in the repository manager returned nil.
OwnerCleanupRun(w, cfg) ==
  /\ wf[w].pc = "idle"
  /\ nexus # EmptyNexus
  /\ wf' = [wf EXCEPT ![w] =
       [WfIdle EXCEPT !.pc = "done", !.kind = "delete", !.cfg = cfg,
                      !.runs = 1, !.errs = <<Nil>>, !.ends = <<nexus>>,
                      !.start = nexus]]
  /\ UNCHANGED <<nexus, roleLock, nexusLog, outsideNexus>>

\* One cleaner decides for one user.
OwnerNext ==
  \/ \E nx \in OwnerStates : NexusSetup(nx)
  \/ \E cfg \in OwnerConfigs : OwnerCleanupRun(1, cfg)
  \/ OwnerCleanupGetUser(1)
  \/ OwnerCleanupGetShareRole(1)
  \/ RemoveOwnerRole(1)

OwnerSpec == Init /\ [][OwnerNext]_vars

\* ---------------------------------------- the role decision engine alone
\* The base and extra roles an engine is configured with.
EngineBaseConfigs ==
  {<<>>, <<"base-role">>, <<"base-role", "base-2">>,
   <<"base-role", "", "base-role">>, <<"base-role", "extra-role">>}
EngineExtraConfigs == {<<>>, <<"extra-role">>, <<"extra-role", "">>}

\* The role names of the lists an engine is given.
EngineRoleNames ==
  {"base-role", "base-2", "extra-role", "repositories.share", "project-role", ""}

\* NewRoleDecisionEngine(baseRoles, extraRoles): the empty names are
\* filtered out.
NewRoleDecisionEngine(baseRoles, extraRoles) ==
  /\ engine.pc = "none"
  /\ engine' = [NoEngine EXCEPT !.pc = "new",
                  !.configured = [base |-> baseRoles, extra |-> extraRoles],
                  !.baseRoles = FilterEmpty(baseRoles),
                  !.extraRoles = FilterEmpty(extraRoles)]
  /\ UNCHANGED <<payload, outsideUnits>>

\* rde.SetAfterRemovalRoles(roles)
SetAfterRemovalRoles(roles) ==
  /\ engine.pc \in {"new", "decided"}
  /\ Len(engine.rounds) < MaxDecisions
  /\ engine' = [engine EXCEPT !.pc = "set", !.afterRemoval = roles]
  /\ UNCHANGED <<payload, outsideUnits>>

\* rde.HasOtherRoles() and rde.DecideFinalRoles() are called.
EngineDecide ==
  /\ engine.pc = "set"
  /\ LET final == DecideFinalRoles(engine.baseRoles, engine.extraRoles,
                                   engine.afterRemoval)
         hasOther == HasOtherRoles(engine.baseRoles, engine.extraRoles,
                                   engine.afterRemoval)
     IN engine' = [engine EXCEPT !.pc = "decided", !.final = final,
                     !.hasOther = hasOther,
                     !.rounds = Append(@, [afterRemoval |-> engine.afterRemoval,
                                           final |-> final, hasOther |-> hasOther])]
  /\ UNCHANGED <<payload, outsideUnits>>

\* An engine is made, given a list, asked, and given its own answer.
EngineNext ==
  \/ \E b \in EngineBaseConfigs, e \in EngineExtraConfigs :
       NewRoleDecisionEngine(b, e)
  \/ \E roles \in SeqsUpTo(EngineRoleNames, MaxAfterRemoval) :
       engine.pc = "new" /\ SetAfterRemovalRoles(roles)
  \/ engine.pc = "decided" /\ SetAfterRemovalRoles(engine.final)
  \/ EngineDecide

EngineSpec == Init /\ [][EngineNext]_vars

\* ------------------------------- the payload of CreateProxyRepository alone
\* The keys a formatSpecificConfig and a defaultConfig of
\* config/packageManager.json may set: a key of their own, a key both may
\* set, and a key of the computed body.
FormatSpecificKeys == {"docker", "online", "cleanup"}
DefaultConfigKeys == {"routingRule", "online", "cleanup"}

\* The package managers a configuration may hold: every choice of keys for
\* the two layers, each value telling the layer it was written in.
ConfiguredManagers ==
  {[Path |-> "/v1/repositories/npm/proxy",
    FormatSpecificConfig |-> [k \in fk |-> "formatSpecific"],
    DefaultConfig |-> [k \in dk |-> "default"]] :
     fk \in SUBSET FormatSpecificKeys, dk \in SUBSET DefaultConfigKeys}

\* `for k, v := range m { repoConfig[k] = v }`
Overlay(repoConfig, m) == m @@ repoConfig

\* CreateProxyRepository: the format is looked up, and repoConfig is given
\* its computed fields.
PayloadBase(format, manager, cfg) ==
  /\ payload.pc = "none"
  /\ payload' =
       IF ToLower(format) \notin DOMAIN PackageManagers
         THEN [NoPayload EXCEPT !.pc = "unsupported", !.format = format]
         ELSE [pc |-> "base", format |-> format, config |-> cfg,
               layers |-> manager,
               body |-> [k \in {"name", "online", "storage", "proxy",
                                 "negativeCache", "httpClient"} |->
                           CASE k = "name" -> cfg.RepositoryName
                             [] k = "proxy" -> cfg.RemoteURL
                             [] OTHER -> "computed"]]
  /\ UNCHANGED <<engine, outsideUnits>>

\* CreateProxyRepository: the loop over formatSpecific.
PayloadFormatSpecific ==
  /\ payload.pc = "base"
  /\ payload' = [payload EXCEPT !.pc = "formatSpecific",
                    !.body = Overlay(@, payload.layers.FormatSpecificConfig)]
  /\ UNCHANGED <<engine, outsideUnits>>

\* CreateProxyRepository: the loop over defaults.
PayloadDefaults ==
  /\ payload.pc = "formatSpecific"
  /\ payload' = [payload EXCEPT !.pc = "defaults",
                    !.body = Overlay(@, payload.layers.DefaultConfig)]
  /\ UNCHANGED <<engine, outsideUnits>>

\* CreateProxyRepository: c.DoReq("POST", path, repoConfig, nil).
PayloadPost ==
  /\ payload.pc = "defaults"
  /\ payload' = [payload EXCEPT !.pc = "posted"]
  /\ UNCHANGED <<engine, outsideUnits>>

\* One call of CreateProxyRepository, for a format and what the
\* configuration holds for it.
PayloadNext ==
  \/ \E format \in {"npm", "NPM", "cargo"}, manager \in ConfiguredManagers,
        cfg \in CreationConfigs : PayloadBase(format, manager, cfg)
  \/ PayloadFormatSpecific
  \/ PayloadDefaults
  \/ PayloadPost

PayloadSpec == Init /\ [][PayloadNext]_vars

\* ----------------------------------------------------------------- claims
Terminal(status) == status \in {JobStatusCompleted, JobStatusFailed}

\* The workers of batch j whose attemptOperation failed / succeeded.
FailedWorkers(j) ==
  {i \in DOMAIN batch[j].workers : ~batch[j].workers[i].result.Success}
SucceededWorkers(j) ==
  {i \in DOMAIN batch[j].workers : batch[j].workers[i].result.Success}

\* Number of positions of sequence s that hold x.
Count(s, x) == Cardinality({i \in DOMAIN s : s[i] = x})

CountsBalanced(job) ==
  job.TotalRequests =
    job.SuccessfulOperations + job.FailedOperations + job.NotProcessedOperations

\* C1: every job in the store, and every record it held after a completed
\* store operation (CreateJob, SetProcessing, Finalize), has TotalRequests =
\* SuccessfulOperations + FailedOperations + NotProcessedOperations; and
\* MarkFailed, which the program never calls, keeps the equation when it is
\* applied to a job that is not yet finalized, as its documentation says.
C1_CountsBalance ==
  \A id \in DOMAIN jobs :
    /\ CountsBalanced(jobs[id])
    /\ \A rec \in held[id] : CountsBalanced(rec)
    /\ ~Terminal(jobs[id].Status) =>
         \A n \in 0..MaxBatch : CountsBalanced(MarkFailed(jobs[id], n))

C1_Witness ==
  \E id \in DOMAIN jobs :
    /\ jobs[id].Status = JobStatusCompleted
    /\ jobs[id].SuccessfulOperations = 1
    /\ jobs[id].FailedOperations = 1
    /\ Cardinality(held[id]) = 3

\* C3: once the fan-in has finalized a job, its status is failed exactly
\* when at least one request failed and none succeeded, and completed
\* otherwise.
C3_FinalStatus ==
  \A j \in DOMAIN batch :
    batch[j].pc = "done" =>
      jobs[j].Status =
        IF FailedWorkers(j) # {} /\ SucceededWorkers(j) = {}
          THEN JobStatusFailed ELSE JobStatusCompleted

C3_Witness ==
  \E j \in DOMAIN batch :
    /\ batch[j].pc = "done"
    /\ FailedWorkers(j) # {}
    /\ SucceededWorkers(j) # {}
    /\ jobs[j].Status = JobStatusCompleted

\* C4: at finalization every valid request has produced exactly one result:
\* SuccessfulOperations + FailedOperations is the number of valid requests,
\* NotProcessedOperations is 0, and FailedRequests holds exactly one entry,
\* the request with its own error, per failed worker and none for a
\* successful one.
C4_OneResultPerRequest ==
  \A j \in DOMAIN batch :
    batch[j].pc = "done" =>
      LET job == jobs[j]
          w == batch[j].workers
          entry(i) == FailedRequest(w[i].req, w[i].result.Error)
      IN /\ Len(w) = Len(batch[j].requests)
         /\ \A i \in DOMAIN w : w[i].req = batch[j].requests[i]
         /\ job.SuccessfulOperations = Cardinality(SucceededWorkers(j))
         /\ job.FailedOperations = Cardinality(FailedWorkers(j))
         /\ job.SuccessfulOperations + job.FailedOperations = Len(batch[j].requests)
         /\ job.NotProcessedOperations = 0
         /\ Len(job.FailedRequests) = Cardinality(FailedWorkers(j))
         /\ \A i \in FailedWorkers(j) :
              Count(job.FailedRequests, entry(i)) =
                Cardinality({k \in FailedWorkers(j) : entry(k) = entry(i)})
         /\ \A k \in DOMAIN job.FailedRequests :
              \E i \in FailedWorkers(j) : job.FailedRequests[k] = entry(i)

C4_Witness ==
  \E j \in DOMAIN batch :
    /\ batch[j].pc = "done"
    /\ Len(batch[j].requests) = 2
    /\ Cardinality(FailedWorkers(j)) = 2
    /\ jobs[j].FailedRequests[1].Reason # jobs[j].FailedRequests[2].Reason
    /\ jobs[j].FailedRequests[1].Request # jobs[j].FailedRequests[2].Request
    /\ jobs[j].FailedRequests[1].Request = batch[j].requests[2]

\* C5: a job's status only moves pending -> processing -> completed or
\* failed; a new job starts pending, a terminal status never changes, and a
\* terminal status is written only when every worker of the batch has
\* delivered its result.
C5_Step ==
  /\ \A j \in DOMAIN jobs' \ DOMAIN jobs : jobs'[j].Status = JobStatusPending
  /\ \A j \in DOMAIN jobs :
       LET old == jobs[j].Status
           new == jobs'[j].Status
       IN /\ \/ new = old
             \/ old = JobStatusPending /\ new = JobStatusProcessing
             \/ old = JobStatusProcessing /\ Terminal(new)
          /\ Terminal(old) => new = old
          /\ (~Terminal(old) /\ Terminal(new)) =>
               /\ Len(batch[j].workers) = Len(batch[j].requests)
               /\ \A i \in DOMAIN batch[j].workers :
                    batch[j].workers[i].pc = "sent"
               /\ Len(batch[j].results) = Len(batch[j].requests)

C5_StatusForward == [][C5_Step]_vars

C5_Witness ==
  \E j \in DOMAIN jobs :
    /\ Terminal(jobs[j].Status)
    /\ held[j] = {NewJob(j, jobs[j].Action, jobs[j].TotalRequests, 0),
                  SetProcessing([NewJob(j, jobs[j].Action, jobs[j].TotalRequests, 0)
                                   EXCEPT !.UpdatedAt = 1]),
                  jobs[j]}

\* C2: under FairSpec (every external call returns, the scheduler runs every
\* runnable goroutine) every job that ProcessBatchAsync created eventually
\* reaches status completed or failed: no worker blocks forever on the
\* results channel and the fan-in does not deadlock.
C2_JobsTerminate ==
  \A j \in JobIDs :
    (j \in DOMAIN jobs) ~> (j \in DOMAIN jobs /\ Terminal(jobs[j].Status))

C2_Witness ==
  \E j \in DOMAIN batch :
    /\ batch[j].pc = "done"
    /\ Len(batch[j].results) = 2
    /\ Len(batch[j].results) = ResultsCap(Len(batch[j].requests))
    /\ batch[j].wg = 0
    /\ Terminal(jobs[j].Status)

\* C6: every job record getJobStatus returns is a record the job held
\* between two complete store operations: no poll reflects a partially
\* applied update.
C6_PollSeesHeldState ==
  (poll.pc = "respond" /\ poll.code = StatusOK) => poll.snap \in held[poll.id]

\* C7: every delete request that passed validation with shared=true is
\* executed in offboarding mode: the resolved OperationConfig carries the
\* request's shared flag and appID and DeletionManager.Run takes the
\* offboarding branch.
C7_SharedDeleteRunsOffboarding ==
  \A j \in DOMAIN batch :
    \A i \in DOMAIN batch[j].workers :
      LET w == batch[j].workers[i]
      IN (batch[j].action = MethodDelete /\ w.req.Shared /\ w.pc # "running") =>
           /\ w.resolved
           /\ w.opConfig.Shared = w.req.Shared
           /\ w.opConfig.AppID = w.req.AppID
           /\ w.mode = "offboarding"

\* The acceptance rule of the batch validation as the specification states it.
Accepted(req, action) ==
  IF action = MethodCreate
    THEN /\ req.PackageManager # ""
         /\ req.Shared => req.AppID = ""
         /\ ~req.Shared => req.AppID # ""
  ELSE IF req.Shared
    THEN req.PackageManager = "" /\ req.AppID # ""
    ELSE req.PackageManager # "" /\ req.AppID # ""

\* The requests of the validation errors, in order.
InvalidRequestsOf(validationResult) ==
  [k \in DOMAIN validationResult.InvalidRequests |->
     validationResult.InvalidRequests[k].Request]

\* The handler has validated a bound, non-empty body.
Validated == hpc = "respond" /\ httpReq.body.Bound

C9_ValidationPartitions ==
  Validated =>
    LET requests == httpReq.body.Requests
        valid == validation.ValidRequests
        invalid == InvalidRequestsOf(validation)
        IsValid(r) == r \in Range(valid)
        IsInvalid(r) == r \in Range(invalid)
    IN /\ Len(valid) + Len(invalid) = Len(requests)
       /\ Range(valid) \cap Range(invalid) = {}
       /\ valid = SelectSeq(requests, IsValid)
       /\ invalid = SelectSeq(requests, IsInvalid)
       /\ \A k \in DOMAIN validation.InvalidRequests :
            /\ Len(validation.InvalidRequests[k].Reasons) >= 1
            /\ \A n \in DOMAIN validation.InvalidRequests[k].Reasons :
                 validation.InvalidRequests[k].Reasons[n] # ""
       /\ (Len(valid) > 0) <=> (httpResp.Code = StatusAccepted)
       /\ httpResp.Code = StatusAccepted =>
            LET id == httpResp.JobID
            IN /\ id \in DOMAIN jobs
               /\ jobs[id].TotalRequests = Len(valid)
               /\ batch[id].requests = valid
               /\ batch[id].pc # "start" =>
                    Len(batch[id].workers) = Len(valid)
               /\ \A k \in DOMAIN jobs[id].FailedRequests :
                    jobs[id].FailedRequests[k].Request \notin Range(invalid)
               /\ httpResp.Validation.TotalRequests = Len(requests)
               /\ httpResp.Validation.ValidRequests = Len(valid)
               /\ httpResp.Validation.InvalidRequests = Len(invalid)

C9_Witness ==
  /\ Validated
  /\ Len(httpReq.body.Requests) = 2
  /\ Len(validation.InvalidRequests) = 1
  /\ validation.InvalidRequests[1].Request = httpReq.body.Requests[1]
  /\ httpResp.Code = StatusAccepted
  /\ jobs[httpResp.JobID].TotalRequests = 1
  /\ batch[httpResp.JobID].pc = "done"
  /\ jobs[httpResp.JobID].SuccessfulOperations = 1

\* C10: a submission whose batch is empty, or in which no request passes
\* validation, is answered 422; it creates no job and starts no worker: the
\* Job Store is left unchanged.
C10_Step ==
  (/\ hpc = "idle"
   /\ hpc' = "respond"
   /\ httpReq'.body.Bound
   /\ \A i \in DOMAIN httpReq'.body.Requests :
        ~Accepted(httpReq'.body.Requests[i], httpReq'.action))
  => /\ httpResp'.Code = StatusUnprocessableEntity
     /\ jobs' = jobs
     /\ batch' = batch
     /\ held' = held

C10_RejectedBatchLeavesStore == [][C10_Step]_vars

C10_Witness ==
  /\ hpc = "respond"
  /\ httpReq.body.Bound
  /\ Len(httpReq.body.Requests) = 2
  /\ Len(validation.InvalidRequests) = 2
  /\ httpResp.Code = StatusUnprocessableEntity
  /\ httpResp.Error = ErrorCodeValidationFailed
  /\ httpResp.InvalidRequests.Count = 2
  /\ jobs = <<>>

\* The workers of batch j whose operation config does not resolve.
UnresolvedWorkers(j) ==
  {i \in DOMAIN batch[j].workers :
     CreateOpConfig(batch[j].workers[i].req, batch[j].action).err # Nil}

ValidationReasons ==
  {ReasonPMMustBeEmpty, ReasonPMRequired, ReasonAppIDNotAllowed,
   ReasonAppIDRequiredOffboarding, ReasonAppIDRequired}

\* C12: an accepted submission is answered 202 with the job id, status
\* 'pending' and the validation summary without waiting for any worker: the
\* response step is enabled in every state of the background goroutine, the
\* response is determined by the validation result alone, it lists only
\* validation failures, and a downstream operation failure appears only in
\* the job record.
C12_AcceptedWithoutWaiting ==
  (hpc = "respond" /\ httpResp.Code = StatusAccepted) =>
    /\ ENABLED Respond
    /\ httpResp.JobID \in DOMAIN jobs
    /\ httpResp.Status = StatusPending
    /\ httpResp =
         BuildAcceptedResponse(httpResp.JobID, Len(httpReq.body.Requests),
                               Len(validation.ValidRequests),
                               Len(validation.InvalidRequests), validation)
    /\ LET fv == httpResp.Validation.FailedValidations
       IN /\ Len(fv) = Len(validation.InvalidRequests)
          /\ \A k \in DOMAIN fv :
               /\ \A n \in DOMAIN fv[k].ValidationErrors :
                    fv[k].ValidationErrors[n] \in ValidationReasons
               /\ fv[k].ValidationErrors \notin
                    {<<ErrNexus>>, <<ErrIQ>>,
                     <<ErrOrganizationNotFound(fv[k].OrganizationName)>>,
                     <<ErrPackageManagerNotFound(fv[k].PackageManager)>>}

C12_Witness ==
  /\ hpc = "respond"
  /\ httpResp.Code = StatusAccepted
  /\ httpResp.Status = StatusPending
  /\ httpResp.Validation.FailedValidations = <<>>
  /\ batch[httpResp.JobID].pc = "done"
  /\ jobs[httpResp.JobID].Status = JobStatusFailed
  /\ Len(jobs[httpResp.JobID].FailedRequests) = 2

\* The mutator fn as a function on the job stored under id, if any.
MutatorOn(js, id, fn) ==
  [job \in (IF id \in DOMAIN js THEN {js[id]} ELSE {}) |-> ApplyMutator(fn, job)]

\* The store after the calls of log from position i on, run one at a time.
RECURSIVE Replay(_, _, _)
Replay(log, i, js) ==
  IF i > Len(log) THEN js
  ELSE LET e == log[i]
       IN Replay(log, i + 1,
            IF e.op = "create" THEN CreateJob(js, e.id, e.action, e.n, e.t)
            ELSE UpdateJob(js, e.id, MutatorOn(js, e.id, e.fn), e.t).store)

\* The goroutines inside the critical section of CreateJob or UpdateJob.
Writers == {c \in Clients : calls[c].pc \in {"insert", "lookup", "mutate",
                                            "stamp", "unlock"}}
Readers == {c \in Clients : calls[c].pc \in {"get", "runlock"}}

\* C13: concurrent UpdateJob calls, interleaved with CreateJob and GetJob
\* calls, are serialized: at most one goroutine is inside CreateJob or
\* UpdateJob and none of them while a GetJob reads, and whenever no call
\* holds the write lock the store equals the result of running the
\* completed calls one at a time in the order of their unlocks, so no
\* update is lost.
C13_UpdatesSerialized ==
  /\ Cardinality(Writers) <= 1
  /\ Writers # {} => Readers = {}
  /\ Writers = {} => jobs = Replay(storeLog, 1, <<>>)

C13_Witness ==
  \E c \in Clients, d \in Clients :
    /\ c # d
    /\ Len(storeLog) = 3
    /\ storeLog[1].op = "create"
    /\ storeLog[2].op = "update" /\ storeLog[2].client = c
    /\ storeLog[3].op = "update" /\ storeLog[3].client = d
    /\ storeLog[2].id = storeLog[1].id
    /\ storeLog[3].id = storeLog[1].id
    /\ storeLog[2].fn = "MarkFailed"
    /\ storeLog[3].fn = "SetProcessing"
    /\ Writers = {}
    /\ jobs[storeLog[1].id].Status = JobStatusProcessing
    /\ jobs[storeLog[1].id].FailedOperations = jobs[storeLog[1].id].TotalRequests

\* The ids of the completed CreateJob calls.
CreatedIDs == {storeLog[k].id : k \in {k \in DOMAIN storeLog : storeLog[k].op = "create"}}

\* C14: CreateJob(id, action, n) stores a record with status pending,
\* TotalRequests = n, NotProcessedOperations = n, SuccessfulOperations =
\* FailedOperations = 0 and an empty FailedRequests list; every id created
\* stays in the store; a GetJob(id) returns exists = true and the stored job
\* exactly when a CreateJob(id) has completed, and exists = false with no
\* job for an id that was never created.
C14_CreateThenGet ==
  /\ CreatedIDs \subseteq DOMAIN jobs
  /\ \A c \in Clients :
       /\ (calls[c].op = "create" /\ calls[c].pc \in {"unlock", "idle"}) =>
            LET job == calls[c].ret.job
            IN /\ job.ID = calls[c].id
               /\ job.Action = calls[c].action
               /\ job.Status = JobStatusPending
               /\ job.TotalRequests = calls[c].n
               /\ job.NotProcessedOperations = calls[c].n
               /\ job.SuccessfulOperations = 0
               /\ job.FailedOperations = 0
               /\ job.FailedRequests = <<>>
               /\ calls[c].pc = "unlock" => jobs[calls[c].id] = job
       /\ (calls[c].op = "get" /\ calls[c].pc = "runlock") =>
            /\ calls[c].ret.exists <=> calls[c].id \in CreatedIDs
            /\ calls[c].ret.exists =>
                 /\ calls[c].ret.job = jobs[calls[c].id]
                 /\ calls[c].ret.job.ID = calls[c].id
            /\ ~calls[c].ret.exists => calls[c].ret.job = Nil
       /\ (calls[c].op = "get" /\ calls[c].pc = "idle" /\ calls[c].ret.exists) =>
            calls[c].id \in DOMAIN jobs

C14_Witness ==
  \E c \in Clients, d \in Clients :
    /\ c # d
    /\ calls[c].op = "get" /\ calls[c].pc = "runlock"
    /\ calls[c].ret.exists
    /\ calls[c].ret.job.Status = JobStatusProcessing
    /\ calls[c].ret.job.TotalRequests = 2
    /\ calls[d].op = "get" /\ calls[d].pc = "idle"
    /\ ~calls[d].ret.exists
    /\ calls[d].id # calls[c].id

\* C15: UpdateJob on an id that is not in the store returns the not-found
\* error, never runs the mutator and leaves every job unchanged; on an id
\* that is in the store it returns no error, applies the mutator to that job
\* only and sets its UpdatedAt to the current time.
C15_UpdateJobContract ==
  \A c \in Clients :
    calls[c].op = "update" =>
      LET id == calls[c].id
          before == calls[c].before
      IN /\ calls[c].pc \in {"mutate", "stamp"} => id \in DOMAIN before
         /\ calls[c].pc = "unlock" =>
              /\ jobs = UpdateJob(before, id, MutatorOn(before, id, calls[c].fn),
                                  calls[c].t).store
              /\ id \notin DOMAIN before =>
                   /\ calls[c].ret.err = "job not found"
                   /\ ~calls[c].ran
                   /\ jobs = before
              /\ id \in DOMAIN before =>
                   /\ calls[c].ret.err = Nil
                   /\ calls[c].ran
                   /\ DOMAIN jobs = DOMAIN before
                   /\ \A o \in DOMAIN before \ {id} : jobs[o] = before[o]
                   /\ jobs[id] = [ApplyMutator(calls[c].fn, before[id])
                                    EXCEPT !.UpdatedAt = calls[c].t]
                   /\ calls[c].t = now - 1
                   /\ jobs[id].UpdatedAt > before[id].UpdatedAt

C15_Witness ==
  \E c \in Clients :
    /\ calls[c].op = "update" /\ calls[c].pc = "unlock"
    /\ calls[c].ret.err = "job not found"
    /\ Len(storeLog) = 2
    /\ storeLog[2].op = "update"
    /\ storeLog[2].id # calls[c].id
    /\ storeLog[2].id \in DOMAIN jobs
    /\ jobs[storeLog[2].id].UpdatedAt = storeLog[2].t
    /\ jobs[storeLog[2].id].UpdatedAt > jobs[storeLog[2].id].CreatedAt

\* The lowercase form of the package manager names of the configuration.
LowercaseName ==
  [p \in {"npm", "NPM"} |-> "npm"]

\* C16: for every request that resolves, RepositoryName is
\* lowercase(packageManager) + "-release-" + ("shared" if shared, else the
\* appID as given), PrivilegeName equals RepositoryName, and RoleName is the
\* ldapUsername unless shared, in which case it is "repositories.share"; a
\* request resolves exactly when its organization and its package manager
\* are configured, and the result is the same whenever the request and the
\* action are the same.
C16_Naming ==
  opc.called =>
    LET r == opc.req
        cfg == opc.out.cfg
    IN /\ (opc.out.err = Nil) <=>
            (r.OrganizationName \in DOMAIN Orgs /\
             r.PackageManager \in DOMAIN PackageManagers)
       /\ opc.out.err = Nil =>
            /\ cfg.RepositoryName =
                 LowercaseName[r.PackageManager] \o "-release-" \o
                   (IF r.Shared THEN "shared" ELSE r.AppID)
            /\ cfg.PrivilegeName = cfg.RepositoryName
            /\ cfg.RoleName =
                 (IF r.Shared THEN "repositories.share" ELSE r.LdapUsername)
            /\ cfg.LdapUsername = r.LdapUsername
            /\ cfg.Action = opc.action
       /\ opc.out = CreateOpConfig(r, opc.action)

C16_Witness ==
  /\ opc.called
  /\ opc.out.err = Nil
  /\ opc.req.PackageManager = "NPM"
  /\ opc.req.AppID = "App-1"
  /\ ~opc.req.Shared
  /\ opc.out.cfg.RepositoryName = "npm-release-App-1"
  /\ opc.out.cfg.RoleName = "user2"

\* The calls of kind call that worker w issued for the resource name.
CallsOf(w, call, name) ==
  {e \in nexusLog : e.w = w /\ e.call = call /\ e.name = name}

\* Worker w is past CreateRepository in its second run.
SecondRepositoryCallDone(w) ==
  /\ wf[w].kind = "create"
  /\ \/ wf[w].runs = 2
     \/ wf[w].runs = 1 /\ wf[w].pc \notin {"done", "c.getRepo", "c.createRepo"}

\* Worker w is past CreatePrivilege in its second run.
SecondPrivilegeCallDone(w) ==
  /\ wf[w].kind = "create"
  /\ \/ wf[w].runs = 2
     \/ /\ wf[w].runs = 1
        /\ wf[w].pc \notin {"done", "c.getRepo", "c.createRepo", "c.getPriv",
                            "c.createPriv"}

\* C17: when CreateRepository (CreatePrivilege) has been called twice with
\* the same config, one run after the other, against a repository manager
\* that keeps what the first call created, no creation call returned an
\* error, and exactly one creation call was issued for a resource that was
\* absent before the first call (none for one that existed): the second
\* call stops at the existence check.
C17_CreateTwiceCreatesOnce ==
  /\ \A e \in nexusLog :
       e.call \in {"CreateProxyRepository", "CreatePrivilege"} => e.ret = Nil
  /\ SecondRepositoryCallDone(1) =>
       Cardinality(CallsOf(1, "CreateProxyRepository", wf[1].cfg.RepositoryName))
         = IF wf[1].cfg.RepositoryName \in wf[1].start.repos THEN 0 ELSE 1
  /\ SecondPrivilegeCallDone(1) =>
       Cardinality(CallsOf(1, "CreatePrivilege", wf[1].cfg.PrivilegeName))
         = IF wf[1].cfg.PrivilegeName \in wf[1].start.privs THEN 0 ELSE 1

\* C17 witness: both calls were made twice, the repository and the privilege
\* were absent at first, and one creation call was issued for each.
C17_Witness ==
  /\ SecondPrivilegeCallDone(1)
  /\ wf[1].cfg.RepositoryName \notin wf[1].start.repos
  /\ wf[1].cfg.PrivilegeName \notin wf[1].start.privs
  /\ Cardinality(CallsOf(1, "CreateProxyRepository", wf[1].cfg.RepositoryName)) = 1
  /\ Cardinality(CallsOf(1, "CreatePrivilege", wf[1].cfg.PrivilegeName)) = 1
  /\ Cardinality(CallsOf(1, "GetRepository", wf[1].cfg.RepositoryName)) = 2
  /\ Cardinality(CallsOf(1, "GetPrivilege", wf[1].cfg.PrivilegeName)) = 2

\* C18: when the creation workflow of a request that succeeded is run again,
\* the second run succeeds too and leaves the repository manager (its
\* repositories, privileges, the privilege list of every role and the role
\* list of every user) exactly as the first run left it.
C18_RerunChangesNothing ==
  (/\ wf[1].kind = "create"
   /\ Len(wf[1].ends) = 2
   /\ wf[1].errs[1] = Nil)
    => /\ wf[1].errs[2] = Nil
       /\ wf[1].ends[2] = wf[1].ends[1]

\* C18 witness: the first run created the repository, the privilege and the
\* role and gave the user the role; the second run has finished.
C18_Witness ==
  /\ wf[1].kind = "create"
  /\ Len(wf[1].ends) = 2
  /\ wf[1].errs = <<Nil, Nil>>
  /\ wf[1].start.repos = {}
  /\ wf[1].start.privs = {}
  /\ wf[1].start.roles = <<>>
  /\ wf[1].cfg.RepositoryName \in wf[1].ends[2].repos
  /\ wf[1].ends[2].roles[wf[1].cfg.RoleName] = <<wf[1].cfg.PrivilegeName>>
  /\ Count(wf[1].ends[2].users[wf[1].cfg.LdapUsername].Roles, wf[1].cfg.RoleName) = 1
  /\ Len(wf[1].ends[2].users[wf[1].cfg.LdapUsername].Roles) > 1

\* C19: every delete of a repository, a privilege or a role that the
\* repository manager answered with NotFound counts as a success: the step
\* of the deletion workflow that issued it returns no error.
C19_DeleteAbsentIsSuccess ==
  \A e \in nexusLog :
    (e.call \in {"DeleteRepository", "DeletePrivilege", "DeleteRole"}
       /\ e.notFound)
      => e.ret = Nil

\* suffix has the characters name ends with.
EndsWith(name, suffix) ==
  \E k \in 0..Len(name) : name = SubSeq(name, 1, k) \o suffix

\* C20: an offboarding run with appID A only issues deletes for the listed
\* repositories and privileges whose name ends in "-release-A"; when it has
\* returned it has issued one for each of them, and it has stored the user
\* with status "disabled" and with BaseRoles as the roles.
C20_OffboardingDeletesMatching ==
  \A w \in Workers :
    (wf[w].kind = "delete" /\ DeletionMode(wf[w].cfg) = "offboarding") =>
      LET suffix == "-release-" \o wf[w].cfg.AppID
          repos == {n \in Range(wf[w].listed.repos) : EndsWith(n, suffix)}
          privs == {n \in Range(wf[w].listed.privs) : EndsWith(n, suffix)}
          deletedRepos == {e.name : e \in {x \in nexusLog :
                             x.w = w /\ x.call = "DeleteRepository"}}
          deletedPrivs == {e.name : e \in {x \in nexusLog :
                             x.w = w /\ x.call = "DeletePrivilege"}}
      IN /\ deletedRepos \subseteq repos
         /\ deletedPrivs \subseteq privs
         /\ (wf[w].pc = "done" /\ wf[w].errs = <<Nil>>) =>
              /\ deletedRepos = repos
              /\ deletedPrivs = privs
              /\ \E e \in nexusLog :
                   /\ e.w = w
                   /\ e.call = "UpdateUser"
                   /\ e.ret = Nil
                   /\ e.user.UserID = wf[w].cfg.LdapUsername
                   /\ e.user.Status = "disabled"
                   /\ e.user.Roles = wf[w].cfg.BaseRoles

\* C20 witness: an offboarding run has returned after it listed two
\* repositories and two privileges that match and one of each that does not,
\* and deleted the two.
C20_Witness ==
  \E w \in Workers :
    /\ wf[w].kind = "delete"
    /\ DeletionMode(wf[w].cfg) = "offboarding"
    /\ wf[w].pc = "done"
    /\ wf[w].errs = <<Nil>>
    /\ Len(wf[w].listed.repos) = 3
    /\ Len(wf[w].listed.privs) = 3
    /\ Cardinality({e \in nexusLog : e.w = w /\ e.call = "DeleteRepository"}) = 2
    /\ Cardinality({e \in nexusLog : e.w = w /\ e.call = "DeletePrivilege"}) = 2
    /\ "npm-release-app-99" \in nexus.repos
    /\ "npm-release-app-99" \in nexus.privs

\* C19, the failing case: two standard deletes of one user run side by side,
\* both read the empty role, one deletes it, and the other's DeleteRole is
\* answered NotFound and makes CleanupRole fail.
C19_CleanupRoleFailsOnAbsentRole ==
  \E e \in nexusLog :
    /\ e.call = "DeleteRole"
    /\ e.notFound
    /\ e.ret = ErrHTTPNotFound
    /\ \A w \in Workers : wf[w].kind = "delete" /\ DeletionMode(wf[w].cfg) = "standard"
    /\ wf[e.w].pc = "done"
    /\ wf[e.w].errs = <<ErrHTTPNotFound>>

\* The calls of kind call that worker w issued.
Issued(w, call) == {e \in nexusLog : e.w = w /\ e.call = call}

\* No worker but w has written a user.
OnlyWriterOfUsers(w) == \A e \in nexusLog : e.call = "UpdateUser" => e.w = w

InRoleSection == {w \in Workers : wf[w].pc \in {"c.getRole", "c.updateRole", "c.createRole"}}

\* AddPrivilegeToRole of worker w has returned without error.
RoleStepSucceeded(w) ==
  /\ wf[w].kind = "create"
  /\ wf[w].pc \in {"c.getUser", "c.updateUser", "done", "reported"}
  /\ Issued(w, "GetRole") # {}
  /\ \A e \in Issued(w, "UpdateRole") \cup Issued(w, "CreateRole") : e.ret = Nil

\* C22: the get-modify-write sections of AddPrivilegeToRole never overlap
\* (at most one worker is inside, and it holds roleModificationLock), and
\* once all the workers, adding different privileges to one role, have
\* returned from it without error, the role lists the privilege of each.
C22_NoLostPrivilege ==
  /\ Cardinality(InRoleSection) <= 1
  /\ \A w \in InRoleSection : roleLock = w
  /\ ((\A w \in Workers : RoleStepSucceeded(w))
      /\ (\A v, w \in Workers :
            /\ wf[v].cfg.RoleName = wf[w].cfg.RoleName
            /\ (v # w => wf[v].cfg.PrivilegeName # wf[w].cfg.PrivilegeName)))
       => \A w \in Workers :
            /\ wf[w].cfg.RoleName \in DOMAIN nexus.roles
            /\ Contains(nexus.roles[wf[w].cfg.RoleName], wf[w].cfg.PrivilegeName)

\* C22 witness: two workers added different privileges to the same role,
\* one was waiting for the lock while the other was inside, and the role
\* lists both.
C22_Witness ==
  /\ \A w \in Workers : RoleStepSucceeded(w)
  /\ wf[1].cfg.RoleName = wf[2].cfg.RoleName
  /\ wf[1].cfg.PrivilegeName # wf[2].cfg.PrivilegeName
  /\ Contains(nexus.roles[wf[1].cfg.RoleName], wf[1].cfg.PrivilegeName)
  /\ Contains(nexus.roles[wf[1].cfg.RoleName], wf[2].cfg.PrivilegeName)
  /\ \E e \in Issued(1, "GetRole"), f \in Issued(2, "GetRole") :
       e.notFound /\ ~f.notFound

\* C23: whenever the role cleanup of a standard deletion has issued
\* DeleteRole and the role was there, the role had no privilege at that
\* moment: no role that has a privilege is deleted by it.
C23_RoleWithPrivilegesKept ==
  [][\A w \in Workers :
       (wf[w].pc = "d.delRole" /\ wf'[w].pc # "d.delRole"
        /\ wf[w].cfg.RoleName \in DOMAIN nexus.roles
        /\ wf[w].cfg.RoleName \notin DOMAIN nexus'.roles)
         => Len(nexus.roles[wf[w].cfg.RoleName]) = 0]_vars

\* C23, the failing case: a create worker gave the role a privilege between
\* the GetRole and the DeleteRole of the role cleanup, the role is gone and
\* the create request is reported successful.
C23_RoleDeletedUnderCreator ==
  \E d, c \in Workers :
    /\ wf[d].kind = "delete"
    /\ DeletionMode(wf[d].cfg) = "standard"
    /\ wf[c].kind = "create"
    /\ wf[c].cfg.RoleName = wf[d].cfg.RoleName
    /\ \E e \in Issued(d, "DeleteRole") : e.ret = Nil /\ ~e.notFound
    /\ \E e \in Issued(c, "UpdateRole") : e.ret = Nil
    /\ wf[d].role.found /\ wf[d].role.Privileges = <<>>
    /\ wf[c].pc = "reported" /\ wf[c].result.Success
    /\ wf[d].pc = "reported" /\ wf[d].result.Success
    /\ wf[c].cfg.RoleName \notin DOMAIN nexus.roles
    /\ Contains(nexus.users["user1"].Roles, wf[c].cfg.RoleName)

\* The create request of worker w has been reported successful.
CreateSucceeded(w) ==
  wf[w].kind = "create" /\ wf[w].pc = "reported" /\ wf[w].result.Success

\* C24: when two create requests for one user with different target roles
\* have both been reported successful, the user holds both target roles.
C24_BothRolesKept ==
  \A v, w \in Workers :
    (/\ v # w
     /\ CreateSucceeded(v)
     /\ CreateSucceeded(w)
     /\ wf[v].cfg.LdapUsername = wf[w].cfg.LdapUsername
     /\ wf[v].cfg.RoleName # wf[w].cfg.RoleName)
      => /\ wf[v].cfg.LdapUsername \in DOMAIN nexus.users
         /\ Contains(nexus.users[wf[v].cfg.LdapUsername].Roles, wf[v].cfg.RoleName)
         /\ Contains(nexus.users[wf[v].cfg.LdapUsername].Roles, wf[w].cfg.RoleName)

\* C24, the failing case: both workers read the user before either wrote
\* it, and the second UpdateUser dropped the role the first had added.
C24_RoleOverwritten ==
  /\ CreateSucceeded(1)
  /\ CreateSucceeded(2)
  /\ wf[1].cfg.RoleName = SharedRoleName
  /\ wf[2].cfg.RoleName = "user1"
  /\ ~Contains(nexus.users["user1"].Roles, "user1")
  /\ \A e \in nexusLog : e.ret = Nil

\* The user holds a role that exists and has at least one privilege.
HoldsRoleWithPrivileges(nx, userID) ==
  /\ userID \in DOMAIN nx.users
  /\ \E i \in DOMAIN nx.users[userID].Roles :
       /\ nx.users[userID].Roles[i] \in DOMAIN nx.roles
       /\ Len(nx.roles[nx.users[userID].Roles[i]]) > 0

\* C25: the organization-role cleanup never decides to remove Owner for a
\* user who, at that moment, holds a role that has privileges.
C25_OwnerKeptWhileRoleHasPrivileges ==
  [][\A w \in Workers :
       (wf[w].pc # "q.remove" /\ wf'[w].pc = "q.remove")
         => ~HoldsRoleWithPrivileges(nexus, wf[w].cfg.LdapUsername)]_vars

\* C25, the failing case: one standard delete alone; the role still had a
\* privilege, so the role cleanup left it in place and the user-role cleanup
\* kept it on the user, and Owner was removed all the same.
C25_OwnerRevokedDespiteRole ==
  /\ wf[2].pc = "idle"
  /\ wf[1].kind = "delete"
  /\ DeletionMode(wf[1].cfg) = "standard"
  /\ wf[1].pc = "reported"
  /\ wf[1].result.Success
  /\ \E e \in Issued(1, "RemoveOwnerRoleFromUser") : e.ret = Nil
  /\ Issued(1, "DeleteRole") = {}
  /\ \E e \in Issued(1, "UpdateUser") : Contains(e.user.Roles, wf[1].cfg.RoleName)
  /\ HoldsRoleWithPrivileges(nexus, wf[1].cfg.LdapUsername)
  /\ Contains(nexus.users[wf[1].cfg.LdapUsername].Roles, wf[1].cfg.RoleName)

\* The calls worker w issued.
CallsBy(w) == {e \in nexusLog : e.w = w}

\* The step of a create request a call belongs to: 1 ensure repository,
\* 2 ensure privilege, 3 ensure role has privilege, 4 ensure user has roles,
\* 5 Owner-role assignment.
CreateStepOf(call) ==
  CASE call \in {"GetRepository", "CreateProxyRepository"} -> 1
    [] call \in {"GetPrivilege", "CreatePrivilege"} -> 2
    [] call \in {"GetRole", "UpdateRole", "CreateRole"} -> 3
    [] call \in {"GetUser", "UpdateUser"} -> 4
    [] call = "AddOwnerRoleToUser" -> 5
    [] OTHER -> 0

\* Any step of the request of worker w.
WorkerStep(w) ==
  \/ CreateRepositoryLookup(w) \/ CreateRepositoryCreate(w)
  \/ CreatePrivilegeLookup(w) \/ CreatePrivilegeCreate(w)
  \/ AddPrivilegeToRoleLock(w) \/ AddPrivilegeToRoleGetRole(w)
  \/ AddPrivilegeToRoleUpdate(w) \/ AddPrivilegeToRoleCreate(w)
  \/ AddRoleToUserGetUser(w) \/ AddRoleToUserUpdate(w)
  \/ DeleteRepository(w) \/ DeletePrivilege(w)
  \/ CleanupRoleGetRole(w) \/ CleanupRoleDelete(w)
  \/ CleanupUserRolesGetUser(w) \/ CleanupUserRolesGetRole(w)
  \/ CleanupUserRolesUpdate(w)
  \/ DisableUserGetUser(w) \/ DisableUserUpdate(w) \/ ForceDeleteRole(w)
  \/ OffboardingListRepositories(w) \/ OffboardingDeleteRepository(w)
  \/ OffboardingListPrivileges(w) \/ OffboardingDeletePrivilege(w)
  \/ OffboardingReturn(w)
  \/ AttemptFailed(w) \/ AddOwnerRole(w) \/ OwnerCleanupGetUser(w)
  \/ OwnerCleanupGetShareRole(w) \/ RemoveOwnerRole(w)

\* A request that failed holds no other request up: every other request
\* under way can take its next step, unless it waits for the role lock that
\* a third request holds.
OthersContinue(w) ==
  \A v \in Workers \ {w} :
    (wf[v].pc \notin {"idle", "reported"}
     /\ ~(wf[v].pc = "c.lock" /\ roleLock # 0))
      => ENABLED WorkerStep(v)

\* C26: the calls of one create request come in the order of the steps
\* repository, privilege, role, user, Owner assignment; a step is only
\* entered after the step before it was entered and no call has failed; a
\* failed call is the last call of the request, the request is reported
\* failed with that error, and the other requests of the batch go on.
C26_CreateStepsInOrder ==
  \A w \in Workers :
    wf[w].kind = "create" =>
      /\ \A e, f \in CallsBy(w) :
           e.seq < f.seq =>
             /\ CreateStepOf(e.call) <= CreateStepOf(f.call)
             /\ e.ret = Nil
      /\ \A f \in CallsBy(w) :
           /\ CreateStepOf(f.call) >= 1
           /\ CreateStepOf(f.call) > 1 =>
                \E e \in CallsBy(w) :
                  e.seq < f.seq /\ CreateStepOf(e.call) = CreateStepOf(f.call) - 1
      /\ \A e \in CallsBy(w) :
           e.ret # Nil =>
             /\ wf[w].pc \in {"done", "reported"}
             /\ wf[w].pc = "reported" =>
                  wf[w].result = operationResult(FALSE, e.ret) /\ OthersContinue(w)

\* C26 witness: a create request was reported failed after its privilege
\* could not be created (the repository had been created, no call for the
\* role, the user or Owner was issued), while the other request of the batch
\* went through all five steps and succeeded.
C26_Witness ==
  \E w, v \in Workers :
    /\ w # v
    /\ wf[w].kind = "create"
    /\ wf[w].pc = "reported"
    /\ ~wf[w].result.Success
    /\ \E e \in Issued(w, "CreatePrivilege") : e.ret # Nil
    /\ \E e \in Issued(w, "CreateProxyRepository") : e.ret = Nil
    /\ \A e \in CallsBy(w) : CreateStepOf(e.call) <= 2
    /\ wf[v].kind = "create"
    /\ CreateSucceeded(v)
    /\ {CreateStepOf(e.call) : e \in CallsBy(v)} = 1..5

\* The step of a standard delete request a call belongs to: 1 delete
\* repository, 2 delete privilege, 3 cleanup role, 4 cleanup user roles,
\* 5 organization-role cleanup.  GetRole and GetUser are issued by two
\* steps each: which one is told by the calls before them.
DeleteStepOf(e) ==
  LET before == {f \in nexusLog : f.w = e.w /\ f.seq < e.seq}
      userWritten == \E f \in before : f.call = "UpdateUser"
      userRead == \E f \in before : f.call = "GetUser"
  IN CASE e.call = "DeleteRepository" -> 1
       [] e.call = "DeletePrivilege" -> 2
       [] e.call = "DeleteRole" -> 3
       [] e.call = "GetRole" -> IF userWritten THEN 5 ELSE IF userRead THEN 4 ELSE 3
       [] e.call = "UpdateUser" -> 4
       [] e.call = "GetUser" -> IF userRead THEN 5 ELSE 4
       [] e.call = "RemoveOwnerRoleFromUser" -> 5
       [] OTHER -> 0

\* C27: the calls of one standard (non-shared) delete request come in the
\* order delete repository, delete privilege, cleanup role, cleanup user
\* roles, organization-role cleanup; a step is only entered after the step
\* before it was entered and no call has failed, so the organization-role
\* cleanup comes only after the deletion in the repository manager
\* succeeded; a failed call is the last call of the request and the request
\* is reported failed with that error.
C27_DeleteStepsInOrder ==
  \A w \in Workers :
    (wf[w].kind = "delete" /\ DeletionMode(wf[w].cfg) = "standard") =>
      /\ \A e, f \in CallsBy(w) :
           e.seq < f.seq =>
             /\ DeleteStepOf(e) <= DeleteStepOf(f)
             /\ e.ret = Nil
      /\ \A f \in CallsBy(w) :
           /\ DeleteStepOf(f) >= 1
           /\ DeleteStepOf(f) > 1 =>
                \E e \in CallsBy(w) :
                  e.seq < f.seq /\ DeleteStepOf(e) = DeleteStepOf(f) - 1
           /\ DeleteStepOf(f) = 5 => wf[w].errs = <<Nil>>
      /\ \A e \in CallsBy(w) :
           e.ret # Nil =>
             /\ wf[w].pc \in {"done", "reported"}
             /\ wf[w].pc = "reported" => wf[w].result = operationResult(FALSE, e.ret)

\* C27 witness: one standard delete went through the five steps and was
\* reported successful, the other was reported failed after its cleanup of
\* the role failed, with no call for the user or the organization.
C27_Witness ==
  \E w, v \in Workers :
    /\ w # v
    /\ wf[w].kind = "delete" /\ DeletionMode(wf[w].cfg) = "standard"
    /\ wf[w].pc = "reported" /\ wf[w].result.Success
    /\ {DeleteStepOf(e) : e \in CallsBy(w)} = 1..5
    /\ wf[v].kind = "delete" /\ DeletionMode(wf[v].cfg) = "standard"
    /\ wf[v].pc = "reported" /\ ~wf[v].result.Success
    /\ \E e \in Issued(v, "DeleteRole") : e.ret # Nil
    /\ {DeleteStepOf(e) : e \in CallsBy(v)} = 1..3

\* The calls issued by the step being taken.
StepCalls == {e.call : e \in nexusLog' \ nexusLog}

\* Worker w returns from AddPrivilegeToRole without error in the step being
\* taken.
RoleStepReturns(w) ==
  /\ wf[w].pc \in {"c.getRole", "c.updateRole", "c.createRole"}
  /\ wf'[w].pc = "c.getUser"

\* C28: when AddPrivilegeToRole returns success the target role exists and
\* lists the target privilege and every privilege it listed before.  A role
\* that already lists the privilege makes the step return after GetRole with
\* nothing changed and no UpdateRole or CreateRole issued; a role that exists
\* without it is sent back with the privilege appended to its list; a role
\* that does not exist is created with exactly that one privilege.
C28_AddPrivilegeToRole ==
  [][\A w \in Workers :
       LET role == wf[w].cfg.RoleName
           priv == wf[w].cfg.PrivilegeName
           exists == role \in DOMAIN nexus.roles
       IN /\ RoleStepReturns(w) =>
               /\ role \in DOMAIN nexus'.roles
               /\ Contains(nexus'.roles[role], priv)
               /\ exists => \A i \in DOMAIN nexus.roles[role] :
                              Contains(nexus'.roles[role], nexus.roles[role][i])
          /\ (wf[w].pc = "c.getRole" /\ wf'[w].pc # "c.getRole") =>
               /\ StepCalls = {"GetRole"}
               /\ nexus' = nexus
               /\ wf'[w].pc = IF exists /\ Contains(nexus.roles[role], priv)
                                THEN "c.getUser"
                              ELSE IF exists THEN "c.updateRole"
                              ELSE "c.createRole"
          /\ (wf[w].pc = "c.updateRole" /\ wf'[w].pc = "c.getUser") =>
               /\ StepCalls = {"UpdateRole"}
               /\ exists
               /\ nexus'.roles[role] = nexus.roles[role] \o <<priv>>
          /\ (wf[w].pc = "c.createRole" /\ wf'[w].pc = "c.getUser") =>
               /\ StepCalls = {"CreateRole"}
               /\ ~exists
               /\ nexus'.roles[role] = <<priv>>]_vars

\* C28 witness: a worker has returned from AddPrivilegeToRole after a
\* successful UpdateRole, and the role lists the privilege it had before
\* followed by the new one.
C28_Witness ==
  \E w \in Workers :
    /\ wf[w].kind = "create"
    /\ wf[w].pc = "c.getUser"
    /\ \E e \in Issued(w, "UpdateRole") : e.ret = Nil
    /\ Issued(w, "CreateRole") = {}
    /\ wf[w].cfg.RoleName \in DOMAIN nexus.roles
    /\ nexus.roles[wf[w].cfg.RoleName] =
         <<"npm-release-app-1", wf[w].cfg.PrivilegeName>>
    /\ wf[w].cfg.PrivilegeName # "npm-release-app-1"

\* The roles a create request asks for, in the order the target role, the
\* extra roles, the base roles.
RequestedRoles(cfg) == <<cfg.RoleName>> \o cfg.ExtraRoles \o cfg.BaseRoles

\* The place of role r in RequestedRoles(cfg).
RequestedRank(cfg, r) ==
  CHOOSE i \in DOMAIN RequestedRoles(cfg) :
    /\ RequestedRoles(cfg)[i] = r
    /\ \A j \in 1..(i - 1) : RequestedRoles(cfg)[j] # r

\* roles is prev, in order, followed by the requested roles that prev lacks,
\* each once and in the order of the request.
IsPrevThenMissing(roles, prev, cfg) ==
  /\ Len(roles) >= Len(prev)
  /\ SubSeq(roles, 1, Len(prev)) = prev
  /\ \A i \in (Len(prev) + 1)..Len(roles) :
       /\ roles[i] \in Range(RequestedRoles(cfg))
       /\ roles[i] \notin Range(prev)
       /\ \A j \in (Len(prev) + 1)..(i - 1) :
            /\ roles[j] # roles[i]
            /\ RequestedRank(cfg, roles[j]) < RequestedRank(cfg, roles[i])
  /\ \A r \in Range(RequestedRoles(cfg)) :
       (r # "" \/ r = cfg.RoleName) => r \in Range(roles)

\* C29: a successful UpdateUser of AddRoleToUser leaves the user with the
\* roles it had before, in their order, followed by those of the target
\* role, the extra roles and the base roles that were missing, each once;
\* when GetUser finds no user the workflow returns an error at once, nothing
\* is changed, and no UpdateUser is issued in that run.
C29_AddRoleToUser ==
  [][\A w \in Workers :
       LET id == wf[w].cfg.LdapUsername
           exists == id \in DOMAIN nexus.users
       IN /\ (wf[w].pc = "c.getUser" /\ wf'[w].pc # "c.getUser") =>
               /\ StepCalls = {"GetUser"}
               /\ nexus' = nexus
               /\ exists => wf'[w].pc = "c.updateUser"
               /\ ~exists =>
                    /\ wf'[w].pc = "done"
                    /\ wf'[w].errs[Len(wf'[w].errs)] # Nil
                    /\ \A e \in nexusLog' :
                         (e.w = w /\ e.run = wf'[w].runs) => e.call # "UpdateUser"
          /\ (wf[w].pc = "c.updateUser" /\ wf'[w].pc # "c.updateUser"
              /\ wf'[w].errs[Len(wf'[w].errs)] = Nil) =>
               /\ StepCalls = {"UpdateUser"}
               /\ exists
               /\ IsPrevThenMissing(nexus'.users[id].Roles, nexus.users[id].Roles,
                                    wf[w].cfg)
               /\ nexus'.users[id].Status = nexus.users[id].Status]_vars

\* C29 witness: AddRoleToUser has succeeded for a user who had another role
\* and the target role; the extra and the base role were appended after
\* them.
C29_Witness ==
  /\ wf[1].kind = "create"
  /\ wf[1].pc = "done"
  /\ wf[1].errs = <<Nil>>
  /\ wf[1].cfg.LdapUsername \in DOMAIN wf[1].start.users
  /\ wf[1].start.users[wf[1].cfg.LdapUsername].Roles = <<"other-role", "user1">>
  /\ wf[1].cfg.RoleName = "user1"
  /\ nexus.users[wf[1].cfg.LdapUsername].Roles =
       <<"other-role", "user1">> \o wf[1].cfg.ExtraRoles \o wf[1].cfg.BaseRoles
  /\ Len(wf[1].cfg.ExtraRoles) > 0
  /\ Len(wf[1].cfg.BaseRoles) > 0

\* The role of the name exists in the repository manager and has privileges.
HasPrivileges(nx, role) == role \in DOMAIN nx.roles /\ Len(nx.roles[role]) > 0

\* C30: in standard and shared-role deletion, CleanupUserRoles keeps the
\* target role in the roles it writes to the user exactly when the user had
\* it and the role, looked up at that point, exists with privileges, and so
\* takes it off exactly when the role is absent or empty; the successful
\* UpdateUser persists that list; when GetUser finds no user the workflow
\* returns success at once, nothing is changed and no UpdateUser is issued.
C30_CleanupUserRoles ==
  [][\A w \in Workers :
       LET id == wf[w].cfg.LdapUsername
           role == wf[w].cfg.RoleName
       IN /\ (wf[w].pc = "d.getUser" /\ wf'[w].pc # "d.getUser") =>
               /\ StepCalls = {"GetUser"}
               /\ nexus' = nexus
               /\ id \in DOMAIN nexus.users =>
                    /\ wf'[w].pc = "d.getRole2"
                    /\ wf'[w].user.Roles = nexus.users[id].Roles
               /\ id \notin DOMAIN nexus.users =>
                    /\ wf'[w].pc = "done"
                    /\ wf'[w].errs[Len(wf'[w].errs)] = Nil
                    /\ \A e \in nexusLog' :
                         (e.w = w /\ e.run = wf'[w].runs) => e.call # "UpdateUser"
          /\ (wf[w].pc = "d.getRole2" /\ wf'[w].pc # "d.getRole2") =>
               /\ StepCalls = {"GetRole"}
               /\ nexus' = nexus
               /\ wf'[w].pc = "d.updateUser"
               /\ Contains(wf'[w].user.Roles, role)
                    <=> (Contains(wf[w].user.Roles, role) /\ HasPrivileges(nexus, role))
          /\ (wf[w].pc = "d.updateUser" /\ wf'[w].pc # "d.updateUser"
              /\ wf'[w].errs[Len(wf'[w].errs)] = Nil) =>
               /\ StepCalls = {"UpdateUser"}
               /\ nexus'.users[id].Roles = wf[w].user.Roles]_vars

\* C30 witness: a standard deletion has succeeded for a user who had the
\* target role; the role was gone when CleanupUserRoles looked it up, and
\* the user was written without it.
C30_Witness ==
  \E w \in Workers :
    /\ wf[w].kind = "delete"
    /\ DeletionMode(wf[w].cfg) = "standard"
    /\ wf[w].pc = "done"
    /\ wf[w].errs = <<Nil>>
    /\ wf[w].cfg.LdapUsername \in DOMAIN wf[w].start.users
    /\ Contains(wf[w].start.users[wf[w].cfg.LdapUsername].Roles, wf[w].cfg.RoleName)
    /\ \E e \in Issued(w, "UpdateUser") :
         e.ret = Nil /\ ~Contains(e.user.Roles, wf[w].cfg.RoleName)
    /\ ~Contains(nexus.users[wf[w].cfg.LdapUsername].Roles, wf[w].cfg.RoleName)

\* The deletion workflow of worker w ran in offboarding mode and has returned.
OffboardingReturned(w) ==
  /\ wf[w].kind = "delete"
  /\ DeletionMode(wf[w].cfg) = "offboarding"
  /\ wf[w].runs >= 1

\* The names of S that the sweep of worker w is to delete.
SweepTargets(w, S) == {n \in S : EndsWith(n, "-release-" \o wf[w].cfg.AppID)}

\* C31: the sub-steps of an offboarding run are independent: whatever failed
\* in it, once the run has returned it has issued the delete of the user's
\* role and a delete for every repository and every privilege of the
\* application that was there when it started.
C31_OffboardingSubStepsAllRun ==
  \A w \in Workers :
    OffboardingReturned(w) =>
      /\ CallsOf(w, "DeleteRole", wf[w].cfg.LdapUsername) # {}
      /\ \A n \in SweepTargets(w, wf[w].start.repos) :
           CallsOf(w, "DeleteRepository", n) # {}
      /\ \A n \in SweepTargets(w, wf[w].start.privs) :
           CallsOf(w, "DeletePrivilege", n) # {}

\* C31, the failing case: the user to offboard is not in the repository
\* manager, DisableUserAndResetRoles fails and Run returns its error at
\* once: the role is not deleted and the repository and the privilege of the
\* application are still there, no delete having been issued.
C31_OffboardingAbortedAtUserReset ==
  \E w \in Workers :
    /\ OffboardingReturned(w)
    /\ wf[w].cfg.LdapUsername \notin DOMAIN wf[w].start.users
    /\ wf[w].errs = <<ErrUserNotFound(wf[w].cfg.LdapUsername)>>
    /\ {e \in nexusLog : e.w = w} = Issued(w, "GetUser")
    /\ SweepTargets(w, nexus.repos) # {}
    /\ SweepTargets(w, nexus.privs) # {}
    /\ wf[w].cfg.LdapUsername \in DOMAIN nexus.roles

\* The deletes of a sweep that worker w issued and that failed.
FailedSweepDeletes(w) ==
  {e \in Issued(w, "DeleteRepository") \cup Issued(w, "DeletePrivilege") :
     e.ret # Nil}

\* C32: an offboarding run in which the delete of a matching repository or
\* privilege failed goes on: once it has returned, it has returned success
\* and has issued a delete for every other repository and for every
\* privilege of its listings whose name matches.
C32_SweepGoesOnAfterFailure ==
  \A w \in Workers :
    (OffboardingReturned(w) /\ FailedSweepDeletes(w) # {}) =>
      /\ wf[w].errs = <<Nil>>
      /\ \A n \in SweepTargets(w, Range(wf[w].listed.repos)) :
           CallsOf(w, "DeleteRepository", n) # {}
      /\ \A n \in SweepTargets(w, Range(wf[w].listed.privs)) :
           CallsOf(w, "DeletePrivilege", n) # {}

\* C32 witness: the delete of the first of two matching repositories failed;
\* the run has returned success after a delete for the second one and for
\* the two matching privileges, which are gone.
C32_Witness ==
  \E w \in Workers :
    /\ OffboardingReturned(w)
    /\ wf[w].errs = <<Nil>>
    /\ \E e \in Issued(w, "DeleteRepository") :
         /\ e.ret = ErrHTTPServer
         /\ e.name \in nexus.repos
         /\ \E f \in Issued(w, "DeleteRepository") :
              f.seq > e.seq /\ f.ret = Nil /\ f.name \notin nexus.repos
    /\ Cardinality(Issued(w, "DeletePrivilege")) = 2
    /\ SweepTargets(w, nexus.privs) = {}

\* The config asks for the deletion of the shared role outside offboarding.
SharedRoleCleanup(cfg) ==
  /\ cfg.Action = MethodDelete
  /\ cfg.RoleName = "repositories.share"
  /\ ~(cfg.Shared /\ cfg.AppID # "")

\* C33: every step of a deletion whose role is "repositories.share", outside
\* offboarding, belongs to the user-role cleanup: it issues no call but
\* GetUser, GetRole of the shared role and UpdateUser, and it leaves the
\* repositories, the privileges and the roles of the repository manager as
\* they are.
C33_SharedRoleOnlyUserCleanup ==
  [][\A w \in Workers :
       (wf'[w] # wf[w] /\ wf'[w].kind = "delete" /\ SharedRoleCleanup(wf'[w].cfg)) =>
         /\ \A e \in nexusLog' \ nexusLog :
              /\ e.call \in {"GetUser", "GetRole", "UpdateUser"}
              /\ e.call = "GetRole" => e.name = "repositories.share"
         /\ nexus'.repos = nexus.repos
         /\ nexus'.privs = nexus.privs
         /\ nexus'.roles = nexus.roles
         /\ wf'[w].pc \in {"d.getUser", "d.getRole2", "d.updateUser", "done"}]_vars

\* C33 witness: a deletion of the shared role has returned success after it
\* updated the user, and the repositories, the privileges and the role of
\* the user are all still there.
C33_Witness ==
  \E w \in Workers :
    /\ wf[w].kind = "delete"
    /\ SharedRoleCleanup(wf[w].cfg)
    /\ wf[w].pc = "done"
    /\ wf[w].errs = <<Nil>>
    /\ \E e \in Issued(w, "UpdateUser") : e.ret = Nil
    /\ {e.call : e \in {x \in nexusLog : x.w = w}} = {"GetUser", "GetRole", "UpdateUser"}
    /\ Cardinality(nexus.repos) = 3
    /\ Cardinality(nexus.privs) = 3
    /\ DOMAIN nexus.roles = {"user1"}

\* The decision the claim describes, for the roles of the user as the
\* repository manager nx has them: with the target role taken off, no role
\* outside the base roles, the extra roles and the shared role is left, the
\* shared role is not left or has no privileges, and what is left is not
\* empty and lies within the base roles.
OwnerRemovalDue(nx, cfg) ==
  LET remaining == RemoveFirst(nx.users[cfg.LdapUsername].Roles, cfg.RoleName)
      left == Range(remaining)
  IN /\ left \subseteq Range(cfg.BaseRoles) \cup Range(cfg.ExtraRoles)
                         \cup {"repositories.share"}
     /\ ("repositories.share" \in left => ~HasPrivileges(nx, "repositories.share"))
     /\ left # {}
     /\ left \subseteq Range(cfg.BaseRoles)

\* Worker w is inside shouldRemoveOwnerRole.
InOwnerDecision(w) ==
  /\ wf[w].kind = "delete"
  /\ \/ wf[w].pc = "done" /\ wf[w].errs[Len(wf[w].errs)] = Nil
     \/ wf[w].pc = "q.getShare"

\* C34: the step that ends shouldRemoveOwnerRole goes on to the removal of
\* Owner exactly when the organization id is not empty, the user exists and
\* the decision of the claim is due; otherwise the request is reported as a
\* success and no removal is issued.  The shared role is read only when it
\* is among the remaining roles.
C34_OwnerRemovalDecision ==
  [][\A w \in Workers :
       (InOwnerDecision(w) /\ wf'[w] # wf[w]) =>
         LET cfg == wf[w].cfg
             known == cfg.OrganizationID # "" /\ cfg.LdapUsername \in DOMAIN nexus.users
         IN /\ nexus' = nexus
            /\ wf'[w].pc \in {"q.getShare", "q.remove", "reported"}
            /\ wf'[w].pc = "q.remove" => (known /\ OwnerRemovalDue(nexus, cfg))
            /\ wf'[w].pc = "reported" =>
                 /\ ~(known /\ OwnerRemovalDue(nexus, cfg))
                 /\ wf'[w].result = operationResult(TRUE, "")
                 /\ Issued(w, "RemoveOwnerRoleFromUser") = {}
            /\ wf'[w].pc = "q.getShare" =>
                 /\ known
                 /\ Contains(RemoveFirst(nexus.users[cfg.LdapUsername].Roles,
                                         cfg.RoleName), "repositories.share")
            /\ cfg.OrganizationID = "" => StepCalls = {}]_vars

\* C34 witness: the user had the target role and a base role, the removal
\* was decided and Owner has been removed.
C34_Witness ==
  /\ wf[1].pc = "reported"
  /\ wf[1].result = operationResult(TRUE, "")
  /\ wf[1].cfg.LdapUsername \in DOMAIN nexus.users
  /\ nexus.users[wf[1].cfg.LdapUsername].Roles = <<"user1", "base-role">>
  /\ wf[1].cfg.RoleName = "user1"
  /\ \E e \in Issued(1, "RemoveOwnerRoleFromUser") : e.ret = Nil

\* The organization server nx has a role named Owner.
HasOwnerRole(nx) == \E i \in DOMAIN nx.iqRoles : nx.iqRoles[i].Name = "Owner"

\* C35: the removal of the Owner membership, once decided, is reported as a
\* success when the organization server has the Owner role and the
\* membership of the user does not exist (the 404 of the removal), nothing
\* being changed, and as a success with the membership gone when it exists;
\* when the organization server has no Owner role the request is reported
\* as failed with an error and the memberships are left as they are.
C35_RemovalOfAbsentMembership ==
  [][\A w \in Workers :
       (wf[w].pc = "q.remove" /\ wf'[w].pc # "q.remove") =>
         LET m == [org |-> wf[w].cfg.OrganizationID, user |-> wf[w].cfg.LdapUsername]
         IN /\ wf'[w].pc = "reported"
            /\ StepCalls = {"RemoveOwnerRoleFromUser"}
            /\ (nexus.iqRoles = IQRoles /\ nexus.fault = "") =>
                 /\ wf'[w].result = operationResult(TRUE, "")
                 /\ nexus'.owners = nexus.owners \ {m}
                 /\ m \notin nexus.owners => nexus' = nexus
            /\ ~HasOwnerRole(nexus) =>
                 /\ wf'[w].result.Success = FALSE
                 /\ wf'[w].result.Error \notin {"", Nil}
                 /\ nexus' = nexus]_vars

\* C35 witness: the removal was decided for a user who is not an Owner of
\* the organization; the request is reported as a success.
C35_Witness ==
  /\ wf[1].pc = "reported"
  /\ wf[1].result = operationResult(TRUE, "")
  /\ \E e \in Issued(1, "RemoveOwnerRoleFromUser") : e.ret = Nil
  /\ nexus.iqRoles = IQRoles
  /\ nexus.owners = {}
  /\ wf[1].start.owners = {}

\* The place of the first x in seq.
FirstIndex(seq, x) ==
  CHOOSE i \in DOMAIN seq : seq[i] = x /\ \A j \in 1..(i - 1) : seq[j] # x

\* The configured base and extra roles of the engine that are not empty.
ConfiguredBase == Range(engine.configured.base) \ {""}
ConfiguredExtra == Range(engine.configured.extra) \ {""}

\* C36: every list DecideFinalRoles returned has no role twice; it starts
\* with the configured non-empty base roles, in the order of the
\* configuration; the roles after them come from afterRemoval and stand in
\* the order they have there; every role of afterRemoval that is neither a
\* base nor an extra role is in it; and it has no role from outside the base
\* roles and afterRemoval.
C36_FinalRolesShape ==
  \A n \in DOMAIN engine.rounds :
    LET final == engine.rounds[n].final
        afterRemoval == engine.rounds[n].afterRemoval
        k == Cardinality(ConfiguredBase)
    IN /\ \A i, j \in DOMAIN final : i # j => final[i] # final[j]
       /\ Len(final) >= k
       /\ {final[i] : i \in 1..k} = ConfiguredBase
       /\ \A i, j \in 1..k :
            i < j => FirstIndex(engine.configured.base, final[i])
                       < FirstIndex(engine.configured.base, final[j])
       /\ \A i \in (k + 1)..Len(final) : final[i] \in Range(afterRemoval)
       /\ \A i, j \in (k + 1)..Len(final) :
            i < j => FirstIndex(afterRemoval, final[i])
                       < FirstIndex(afterRemoval, final[j])
       /\ \A r \in Range(afterRemoval) :
            r \notin ConfiguredBase \cup ConfiguredExtra => r \in Range(final)
       /\ Range(final) \subseteq ConfiguredBase \cup Range(afterRemoval)

\* C36 witness: two base roles are configured; afterRemoval names a project
\* role twice with the second base role in between; the answer is the two
\* base roles and the project role once.
C36_Witness ==
  /\ engine.pc = "decided"
  /\ engine.configured.base = <<"base-role", "base-2">>
  /\ engine.afterRemoval = <<"project-role", "base-2", "project-role">>
  /\ engine.final = <<"base-role", "base-2", "project-role">>

\* C37: when afterRemoval holds base and extra roles only, HasOtherRoles is
\* false and the list DecideFinalRoles returned has no extra role that is
\* not a base role as well.
C37_NoProjectRolesDropsExtra ==
  \A n \in DOMAIN engine.rounds :
    Range(engine.rounds[n].afterRemoval) \subseteq ConfiguredBase \cup ConfiguredExtra =>
      /\ engine.rounds[n].hasOther = FALSE
      /\ Range(engine.rounds[n].final) \cap ConfiguredExtra \subseteq ConfiguredBase

\* C37 witness: afterRemoval is an extra role and a base role; the answer is
\* the base role alone.
C37_Witness ==
  /\ engine.pc = "decided"
  /\ engine.configured = [base |-> <<"base-role">>, extra |-> <<"extra-role">>]
  /\ engine.afterRemoval = <<"extra-role", "base-role">>
  /\ engine.hasOther = FALSE
  /\ engine.final = <<"base-role">>

\* C38: when afterRemoval holds a role that is not a base role, not an extra
\* role and not "repositories.share", HasOtherRoles is true and every extra
\* role of afterRemoval is in the list DecideFinalRoles returned.
C38_ProjectRoleKeepsExtra ==
  \A n \in DOMAIN engine.rounds :
    (Range(engine.rounds[n].afterRemoval)
       \ (ConfiguredBase \cup ConfiguredExtra \cup {"repositories.share"}) # {}) =>
      /\ engine.rounds[n].hasOther = TRUE
      /\ Range(engine.rounds[n].afterRemoval) \cap ConfiguredExtra
           \subseteq Range(engine.rounds[n].final)

\* C38 witness: afterRemoval is an extra role and a project role; the answer
\* keeps both after the base role.
C38_Witness ==
  /\ engine.pc = "decided"
  /\ engine.configured = [base |-> <<"base-role">>, extra |-> <<"extra-role">>]
  /\ engine.afterRemoval = <<"extra-role", "project-role">>
  /\ engine.hasOther = TRUE
  /\ engine.final = <<"base-role", "extra-role", "project-role">>

\* C39: DecideFinalRoles given its own answer as afterRemoval returns that
\* answer again, and HasOtherRoles says of the answer what it said of the
\* list the answer was made from.
C39_DecideFinalRolesIdempotent ==
  \A n \in DOMAIN engine.rounds :
    (n > 1 /\ engine.rounds[n].afterRemoval = engine.rounds[n - 1].final) =>
      /\ engine.rounds[n].final = engine.rounds[n - 1].final
      /\ engine.rounds[n].hasOther = engine.rounds[n - 1].hasOther

\* C39 witness: the first list had an extra role between a project role and
\* the shared role, and no base role; the answer, with the base role put in
\* front, was given back to the engine and returned as it was.
C39_Witness ==
  /\ engine.pc = "decided"
  /\ Len(engine.rounds) = 2
  /\ engine.configured = [base |-> <<"base-role">>, extra |-> <<"extra-role">>]
  /\ engine.rounds[1].afterRemoval = <<"project-role", "extra-role", "repositories.share">>
  /\ engine.rounds[1].final =
       <<"base-role", "project-role", "extra-role", "repositories.share">>
  /\ engine.rounds[2].afterRemoval = engine.rounds[1].final
  /\ engine.rounds[2].final = engine.rounds[1].final

\* C40: in the body posted for a new proxy repository, a key the
\* formatSpecificConfig sets has the value given there, a key only the
\* defaultConfig sets has the value given there, and every other key has its
\* computed value.
C40_FormatSpecificOverridesDefaults ==
  payload.pc = "posted" =>
    \A k \in DOMAIN payload.body :
      payload.body[k] =
        IF k \in DOMAIN payload.layers.FormatSpecificConfig
          THEN payload.layers.FormatSpecificConfig[k]
        ELSE IF k \in DOMAIN payload.layers.DefaultConfig
          THEN payload.layers.DefaultConfig[k]
        ELSE IF k = "name" THEN payload.config.RepositoryName
        ELSE IF k = "proxy" THEN payload.config.RemoteURL
        ELSE "computed"

\* C40, the failing case: the formatSpecificConfig and the defaultConfig of
\* the format both set "cleanup", and the body is posted with the value of
\* the defaultConfig.
C40_DefaultOverridesFormatSpecific ==
  /\ payload.pc = "posted"
  /\ "cleanup" \in DOMAIN payload.layers.FormatSpecificConfig
  /\ "cleanup" \in DOMAIN payload.layers.DefaultConfig
  /\ payload.body["cleanup"] = payload.layers.DefaultConfig["cleanup"]
  /\ payload.body["cleanup"] # payload.layers.FormatSpecificConfig["cleanup"]

====
